---- MODULE Spec2Model ----
(***************************************************************************)
(* State-machine model of the gbe Game Boy emulator core:                  *)
(*   - Display (src/src/display.cpp): the PPU scanline state machine.      *)
(*   - Cartridge (src/src/cartridge.cpp): header parse, MBC1/MBC3/MBC5     *)
(*     bank switching, RTC latch, save states.                             *)
(***************************************************************************)
EXTENDS Integers, Sequences, FiniteSets, TLC

VARIABLES
    \* ---- Display ----
    m_mode,                 \* Display::m_mode
    m_modeClocksRemaining,  \* Display::m_modeClocksRemaining
    m_currentScanLine,      \* Display::m_currentScanLine
    m_registers,            \* Display::m_registers (STAT, LY, LYC)
    pushFrameBuffer,        \* return value of the last Display::Step
    irqs,                   \* CPUInterruptRequest calls made by the last Step, in order
    tick,                   \* Step calls made in the current 70,224-step window
    nFrameReady,            \* Steps of the current window that returned true
    nVBlankIrq,             \* VBlank requests made in the current window
    vram,                   \* System VRAM (m_system->GetVRAM())
    oam,                    \* System OAM (m_system->GetOAM()): its non-zero entries
    m_vramCopy,             \* Display::m_vramCopy
    m_oamCopy,              \* Display::m_oamCopy
    m_frameBuffer,          \* Display::m_frameBuffer: the non-white pixels of the line
                            \* RenderScanline wrote last
    atMode3Entry,           \* VRAM and OAM as they were when mode 3 was last entered
    \* ---- Cartridge ----
    cart,                   \* the Cartridge object
    now,                    \* Timestamp::Now(), as seconds
    lastOp,                 \* the last Cartridge call and what it returned
    hostEvents,             \* host callbacks invoked by the last call, in order
    lastWritten,            \* last value the CPU wrote to each MBC register window
    stateStream,            \* the save-state stream written by the last SaveState
    savedCart,              \* the Cartridge object as SaveState saw it
    busOp,                  \* the last bus operation or reset: what, where, which byte
    romFile,                \* the ROM file Load was called on
    args,                   \* main's ProgramArgs, as ParseArguments left them
    state,                  \* main's State: the bios, cart, window and system pointers
    hostPc                  \* where main and InitializeState stand

videoVars == <<vram, oam, m_vramCopy, m_oamCopy, m_frameBuffer, atMode3Entry>>

displayVars == <<m_mode, m_modeClocksRemaining, m_currentScanLine, m_registers,
                 pushFrameBuffer, irqs, tick, nFrameReady, nVBlankIrq, videoVars>>

hostVars == <<args, state, hostPc>>

\* what lives outside the emulated machine
stateVars == <<stateStream, savedCart, hostVars>>

cartVars == <<cart, now, lastOp, hostEvents, lastWritten, stateVars, busOp, romFile>>

vars == <<displayVars, cartVars>>

\* ------------------------------------------------------------------
\* Bit helpers (uint8 / uint16 / uint32 arithmetic of the C++ code)
\* ------------------------------------------------------------------
Pow2(n) == 2 ^ n
Bit(v, n) == (v \div Pow2(n)) % 2
SetBit(v, n, b) == v - Bit(v, n) * Pow2(n) + b * Pow2(n)
U8(v) == v % 256
U16(v) == v % 65536

\* ------------------------------------------------------------------
\* Display
\* ------------------------------------------------------------------
MODE2_CLOCKS == 80
MODE3_CLOCKS_Slow == 172 + 1
MODE3_CLOCKS == 172
MODE0_CLOCKS == 204
MODE1_CLOCKS == 456
VBLANK_START_LINE_Late == 144 + 1
VBLANK_START_LINE == 144
LAST_LINE_WRAP == 154
\* Length of the observation window of the frame-timing properties
FRAME_CLOCKS == 154 * 456

\* The part of the Display object the state machine works on.
DisplayState ==
    [mode |-> m_mode, clocks |-> m_modeClocksRemaining, line |-> m_currentScanLine,
     regs |-> m_registers, irqs |-> <<>>]

\* SetMode that requests LCDSTAT whatever the enable bits of STAT say
SetMode_IgnoresEnables(d, mode) ==
    LET stat == (d.regs.STAT - (d.regs.STAT % 4)) + (mode % 4)
        lcdstat == IF mode \in {0, 1, 2} THEN <<"LCDSTAT">> ELSE <<>>
        vblank == IF mode = 1 THEN <<"VBLANK">> ELSE <<>>
    IN [d EXCEPT !.mode = mode, !.regs.STAT = stat,
                 !.irqs = d.irqs \o lcdstat \o vblank]

\* SetMode that leaves STAT as it was
SetMode_StaleStat(d, mode) ==
    LET stat == d.regs.STAT
        lcdstat == IF \/ (mode = 0 /\ Bit(stat, 3) = 1)
                      \/ (mode = 1 /\ Bit(stat, 4) = 1)
                      \/ (mode = 2 /\ Bit(stat, 5) = 1)
                   THEN <<"LCDSTAT">> ELSE <<>>
        vblank == IF mode = 1 THEN <<"VBLANK">> ELSE <<>>
    IN [d EXCEPT !.mode = mode, !.irqs = d.irqs \o lcdstat \o vblank]

\* Display::SetMode
SetMode(d, mode) ==
    LET stat == (d.regs.STAT - (d.regs.STAT % 4)) + (mode % 4)
        lcdstat == IF \/ (mode = 0 /\ Bit(stat, 3) = 1)
                      \/ (mode = 1 /\ Bit(stat, 4) = 1)
                      \/ (mode = 2 /\ Bit(stat, 5) = 1)
                   THEN <<"LCDSTAT">> ELSE <<>>
        vblank == IF mode = 1 THEN <<"VBLANK">> ELSE <<>>
    IN [d EXCEPT !.mode = mode, !.regs.STAT = stat,
                 !.irqs = d.irqs \o lcdstat \o vblank]

\* SetScanline that leaves LY as it was
SetScanline_StaleLY(d, scanline) == [d EXCEPT !.line = scanline]

\* Display::SetScanline
SetScanline(d, scanline) ==
    LET ly == U8(scanline)
        coincidence_flag ==
            IF Bit(d.regs.STAT, 2) = 1
            THEN (IF d.regs.LYC = ly THEN 1 ELSE 0)
            ELSE (IF d.regs.LYC # ly THEN 1 ELSE 0)
        stat == SetBit(d.regs.STAT, 2, coincidence_flag)
        lcdstat == IF coincidence_flag = 1 /\ Bit(stat, 6) = 1
                   THEN <<"LCDSTAT">> ELSE <<>>
    IN [d EXCEPT !.line = scanline, !.regs.LY = ly, !.regs.STAT = stat,
                 !.irqs = d.irqs \o lcdstat]

\* Display::Step, as a function from the state before to the state after and
\* the returned pushFrameBuffer.
StepResult(d0) ==
    LET d == [d0 EXCEPT !.clocks = d0.clocks - 1]
    IN IF d.clocks # 0 THEN [d |-> d, push |-> FALSE]
       ELSE CASE d.mode = 2 ->
                   [d |-> SetMode([d EXCEPT !.clocks = MODE3_CLOCKS], 3), push |-> FALSE]
              [] d.mode = 3 ->
                   [d |-> [SetMode(d, 0) EXCEPT !.clocks = MODE0_CLOCKS], push |-> FALSE]
              [] d.mode = 0 ->
                   LET n == SetScanline(d, d.line + 1)
                   IN IF n.line = VBLANK_START_LINE
                      THEN [d |-> [SetMode(n, 1) EXCEPT !.clocks = MODE1_CLOCKS],
                            push |-> TRUE]
                      ELSE [d |-> [SetMode(n, 2) EXCEPT !.clocks = MODE2_CLOCKS],
                            push |-> FALSE]
              [] d.mode = 1 ->
                   LET n == SetScanline(d, d.line + 1)
                   IN IF n.line = LAST_LINE_WRAP
                      THEN [d |-> [SetScanline(SetMode(n, 2), 0)
                                      EXCEPT !.clocks = MODE2_CLOCKS],
                            push |-> FALSE]
                      ELSE [d |-> [n EXCEPT !.clocks = MODE1_CLOCKS], push |-> FALSE]

CountOf(s, x) == Cardinality({i \in 1..Len(s) : s[i] = x})

\* ------------------------------------------------------------------
\* Display: scanline rendering.  VRAM is the set of <<offset, byte>> pairs of
\* its non-zero bytes; OAM is a sequence of 40 entries; a colour is 0..3 for
\* grayscale_colors[0..3] and 4 for 0xFF555555.
\* ------------------------------------------------------------------
SCREEN_WIDTH == 160
OAM_ENTRIES == 40
OBJ_COLOR0 == 4

VramGet(vramCopy, off) ==
    IF \E p \in vramCopy : p[1] = off
    THEN (CHOOSE p \in vramCopy : p[1] = off)[2]
    ELSE 0

OamEntry(y, x, tile, priority, hflip, vflip, palette) ==
    [y |-> y, x |-> x, tile |-> tile, priority |-> priority, hflip |-> hflip,
     vflip |-> vflip, palette |-> palette]
ZeroEntry == OamEntry(0, 0, 0, 0, 0, 0, 0)

\* Entry i (0..39) of an OAM held as the set of its non-zero entries
OamGet(oamCopy, i) ==
    IF \E p \in oamCopy : p[1] = i
    THEN (CHOOSE p \in oamCopy : p[1] = i)[2]
    ELSE ZeroEntry

\* Display::ReadTile
ReadTile(vramCopy, high_tileset, tile, x, y) ==
    LET BGTILEBASE == IF high_tileset THEN 2048 ELSE 0
        tilemem == BGTILEBASE + tile * 16
        byteIndex == y * 2
        bitIndex == x % 8
    IN Bit(VramGet(vramCopy, tilemem + byteIndex), 7 - bitIndex)
         + 2 * Bit(VramGet(vramCopy, tilemem + byteIndex + 1), 7 - bitIndex)

\* Display::RenderScanline, "cull sprites": the OAM entries on the scanline,
\* in OAM order
CullSprites(oamCopy, LINE, SPRITE_HEIGHT) ==
    LET OnLine(e) ==
            /\ ~(e.x = 0 \/ e.y = 0 \/ e.x >= 168 \/ e.y >= 160)
            /\ LINE >= e.y - 16
            /\ LINE <= e.y - 16 + SPRITE_HEIGHT - 1
        RECURSIVE go(_)
        go(i) == IF i >= OAM_ENTRIES THEN <<>>
                 ELSE (IF OnLine(OamGet(oamCopy, i)) THEN <<OamGet(oamCopy, i)>> ELSE <<>>)
                          \o go(i + 1)
    IN go(0)

\* The sprites left in OAM order
SortByX_OamOrder(sprites) == sprites

\* Display::RenderScanline, "sort sprites": ascending x (entries of equal x
\* keep their order here; Y_qsort leaves that order open)
SortByX(sprites) ==
    LET RECURSIVE insert(_, _), sort(_)
        insert(e, sorted) ==
            IF sorted = <<>> THEN <<e>>
            ELSE IF e.x < Head(sorted).x THEN <<e>> \o sorted
            ELSE <<Head(sorted)>> \o insert(e, Tail(sorted))
        sort(n) == IF n = 0 THEN <<>> ELSE insert(sprites[n], sort(n - 1))
    IN sort(Len(sprites))

\* Display::RenderScanline, "hardware can only draw 10 sprites":
\* num_active_sprites = Max(num_active_sprites, 10)
SpriteCount(num_active_sprites) ==
    IF num_active_sprites = 0 THEN 0
    ELSE IF num_active_sprites > 10 THEN num_active_sprites ELSE 10

\* active_sprites[0 .. num_active_sprites - 1] as the pixel loop sees it; the
\* slots past the culled sprites were never written and hold uninit
ActiveSprites(oamCopy, LINE, SPRITE_HEIGHT, uninit) ==
    LET sorted == SortByX(CullSprites(oamCopy, LINE, SPRITE_HEIGHT))
        n == SpriteCount(Len(sorted))
    IN [i \in 1..n |-> IF i <= Len(sorted) THEN sorted[i] ELSE uninit]

\* Display::RenderScanline, "find the first sprite with an x range including
\* this pixel": its index in active_sprites, 0 when there is none
FirstSpriteAt(active, pixel_x) ==
    LET covering == {i \in 1..Len(active) :
                        pixel_x >= active[i].x - 8 /\ pixel_x <= active[i].x - 8 + 7}
    IN IF covering = {} THEN 0 ELSE CHOOSE i \in covering : \A j \in covering : i <= j

\* One pixel of Display::RenderScanline: the background palette index, the
\* colour, the index in active_sprites of the sprite drawn (0: none), and the
\* tile, column and row given to ReadTile for it
RenderPixel(regs, vramCopy, active, pixel_x) ==
    LET LCDC == regs.LCDC
        LINE == regs.LY
        BGENABLE == Bit(LCDC, 0)
        BGMAPBASE == IF Bit(LCDC, 3) = 1 THEN 7168 ELSE 6144
        BGTILESET_SELECT == Bit(LCDC, 4)
        SPRITE_SIZE_BIT == Bit(LCDC, 2)
        SPRITE_HEIGHT == 8 + SPRITE_SIZE_BIT * 8
        SPRITE_ENABLE == Bit(LCDC, 1)
        BGMAPOFFSET == (((LINE + regs.SCY) % 256) \div 8) * 32
        total == (regs.SCX % 8) + pixel_x
        lineOffset == ((regs.SCX \div 8) + (total \div 8)) % 32
        bg_x == total % 8
        bg_y == (LINE + regs.SCY) % 8
        bg_tile == VramGet(vramCopy, BGMAPBASE + BGMAPOFFSET + lineOffset)
        bgcolor_index == IF BGENABLE = 1
                         THEN ReadTile(vramCopy, BGTILESET_SELECT = 0, bg_tile, bg_x, bg_y)
                         ELSE 0
        bgcolor == IF BGENABLE = 1 THEN (regs.BGP \div Pow2(2 * bgcolor_index)) % 4 ELSE 0
        si == IF SPRITE_ENABLE = 1 THEN FirstSpriteAt(active, pixel_x) ELSE 0
    IN IF si = 0 \/ (si # 0 /\ active[si].priority = 1 /\ bgcolor_index # 0)
       THEN [bgcolor_index |-> bgcolor_index, color |-> bgcolor, sprite |-> 0,
             tile_index |-> 0, tile_x |-> 0, tile_y |-> 0]
       ELSE LET sprite == active[si]
                tx0 == pixel_x - (sprite.x - 8)
                ty0 == LINE - (sprite.y - 16)
                tile_x == IF sprite.hflip = 1 THEN 15 - tx0 ELSE tx0
                tile_y == IF sprite.vflip = 1 THEN SPRITE_HEIGHT - ty0 ELSE ty0
                tile_index == IF SPRITE_SIZE_BIT = 1
                              THEN (IF tile_y < 8 THEN sprite.tile - (sprite.tile % 2)
                                    ELSE sprite.tile - (sprite.tile % 2) + 1)
                              ELSE sprite.tile
                palette_index == ReadTile(vramCopy, FALSE, tile_index,
                                          U8(tile_x + 256), U8(tile_y + 256))
                obp == IF sprite.palette = 1 THEN regs.OBP1 ELSE regs.OBP0
                color == IF palette_index = 0 THEN OBJ_COLOR0
                         ELSE (obp \div Pow2(2 * palette_index)) % 4
            IN [bgcolor_index |-> bgcolor_index, color |-> color, sprite |-> si,
                tile_index |-> tile_index, tile_x |-> U8(tile_x + 256),
                tile_y |-> U8(tile_y + 256)]

\* Display::PutPixel: the colour of a pixel of the framebuffer line, held as
\* the set of its non-white pixels
FrameGet(frameBuffer, pixel_x) ==
    IF \E p \in frameBuffer : p[1] = pixel_x
    THEN (CHOOSE p \in frameBuffer : p[1] = pixel_x)[2]
    ELSE 0

\* Display::RenderScanline: the framebuffer line LY
RenderScanline(regs, vramCopy, oamCopy, uninit) ==
    IF Bit(regs.LCDC, 7) = 0 THEN {}
    ELSE LET active == IF Bit(regs.LCDC, 1) = 1
                       THEN ActiveSprites(oamCopy, regs.LY, 8 + Bit(regs.LCDC, 2) * 8, uninit)
                       ELSE <<>>
             line == [pixel_x \in 0..(SCREEN_WIDTH - 1) |->
                         RenderPixel(regs, vramCopy, active, pixel_x).color]
         IN {<<pixel_x, line[pixel_x]>> : pixel_x \in {x \in 0..(SCREEN_WIDTH - 1) : line[x] # 0}}

\* An OAM copy taken where the VRAM copy is taken
SnapshotOAM_AtRender(mode, next_mode, oamNow, oamCopy) ==
    IF mode = 3 /\ next_mode = 0 THEN oamNow ELSE oamCopy

\* Display::Step, mode 2 running out: "read sprites"
SnapshotOAM(mode, next_mode, oamNow, oamCopy) ==
    IF mode = 2 /\ next_mode = 3 THEN oamNow ELSE oamCopy

\* Display::Step, mode 3 running out: "read vram"
SnapshotVRAM(mode, next_mode, vramNow, vramCopy) ==
    IF mode = 3 /\ next_mode = 0 THEN vramNow ELSE vramCopy

\* What the never-written slots of active_sprites may hold: nothing that
\* shows, or a sprite at pixels 100..107 of lines 10..25
UninitEntries == {ZeroEntry, OamEntry(26, 108, 1, 0, 0, 0, 0)}

\* The uninitialised slots matter when RenderScanline runs with the display
\* and the sprites on and one to nine sprites on the line
UninitChoices(mode, next_mode, regs, oamCopy) ==
    IF /\ mode = 3 /\ next_mode = 0
       /\ Bit(regs.LCDC, 7) = 1 /\ Bit(regs.LCDC, 1) = 1
       /\ Len(CullSprites(oamCopy, regs.LY, 8 + Bit(regs.LCDC, 2) * 8)) \in 1..9
    THEN UninitEntries ELSE {ZeroEntry}

\* Display::Display + Display::Reset
InitDisplay ==
    /\ m_mode = 2
    /\ m_modeClocksRemaining = MODE2_CLOCKS
    /\ m_currentScanLine = 0
    /\ m_registers = [STAT |-> 2, LY |-> 0, LYC |-> 0, LCDC |-> 0, SCY |-> 0, SCX |-> 0,
                      BGP |-> 0, OBP0 |-> 0, OBP1 |-> 0]
    /\ pushFrameBuffer = FALSE
    /\ irqs = <<>>
    /\ tick = 0
    /\ nFrameReady = 0
    /\ nVBlankIrq = 0
    /\ vram = {}
    /\ oam = {}
    /\ m_vramCopy = {}
    /\ m_oamCopy = {}
    /\ m_frameBuffer = {}
    /\ atMode3Entry = [vram |-> {}, oam |-> {}]

\* One call of Display::Step (one T-cycle)
Step ==
    LET r == StepResult(DisplayState)
        fresh == (tick = FRAME_CLOCKS)
    IN /\ m_mode' = r.d.mode
       /\ m_modeClocksRemaining' = r.d.clocks
       /\ m_currentScanLine' = r.d.line
       /\ m_registers' = r.d.regs
       /\ pushFrameBuffer' = r.push
       /\ irqs' = r.d.irqs
       /\ tick' = IF fresh THEN 1 ELSE tick + 1
       /\ nFrameReady' = (IF fresh THEN 0 ELSE nFrameReady) + (IF r.push THEN 1 ELSE 0)
       /\ nVBlankIrq' = (IF fresh THEN 0 ELSE nVBlankIrq) + CountOf(r.d.irqs, "VBLANK")
       /\ m_oamCopy' = SnapshotOAM(m_mode, r.d.mode, oam, m_oamCopy)
       /\ m_vramCopy' = SnapshotVRAM(m_mode, r.d.mode, vram, m_vramCopy)
       /\ atMode3Entry' = IF m_mode = 2 /\ r.d.mode = 3
                          THEN [vram |-> vram, oam |-> oam] ELSE atMode3Entry
       /\ LET vramCopy == SnapshotVRAM(m_mode, r.d.mode, vram, m_vramCopy)
              oamCopy == SnapshotOAM(m_mode, r.d.mode, oam, m_oamCopy)
          IN \E uninit \in UninitChoices(m_mode, r.d.mode, r.d.regs, oamCopy) :
                m_frameBuffer' = IF m_mode = 3 /\ r.d.mode = 0
                                 THEN RenderScanline(r.d.regs, vramCopy, oamCopy, uninit)
                                 ELSE m_frameBuffer
       /\ UNCHANGED <<vram, oam>>
       /\ UNCHANGED cartVars


\* The program's LCD set-up before the PPU starts stepping: a bus write to STAT
\* (0xFF41), which sets the interrupt enable bits 3-6 and keeps bits 0-2, and a
\* bus write to LYC (0xFF45)
LcdSetups == { <<40, 5>>,      \* HBlank and OAM interrupts
               <<16, 5>>,      \* VBlank interrupt
               <<64, 5>>,      \* coincidence interrupt, LYC on a visible line
               <<64, 154>> }   \* coincidence interrupt, LYC beyond the last line

WriteLcdRegisters ==
    /\ tick = 0
    /\ m_registers.STAT \div 8 = 0
    /\ \E setup \in LcdSetups :
         m_registers' = [m_registers EXCEPT
                           !.STAT = ((setup[1] \div 8) % 16) * 8 + (m_registers.STAT % 8),
                           !.LYC = setup[2]]
    /\ UNCHANGED <<m_mode, m_modeClocksRemaining, m_currentScanLine, pushFrameBuffer,
                   irqs, tick, nFrameReady, nVBlankIrq, videoVars>>
    /\ UNCHANGED cartVars

NextPpu == WriteLcdRegisters \/ Step

\* ------------------------------------------------------------------
\* Cartridge: tables and header parse
\* ------------------------------------------------------------------
ROM_BANK_SIZE == 16384
RAM_BANK_SIZE == 8192

TypeInfo(id, mbc, ram, battery, timer, rumble) ==
    [id |-> id, mbc |-> mbc, ram |-> ram, battery |-> battery, timer |-> timer,
     rumble |-> rumble]

\* CART_TYPEINFOS: id, mbc, ram, battery, timer, rumble
CART_TYPEINFOS == <<
    TypeInfo(0,  "MBC_NONE",  FALSE, FALSE, FALSE, FALSE),
    TypeInfo(1,  "MBC_MBC1",  FALSE, FALSE, FALSE, FALSE),
    TypeInfo(2,  "MBC_MBC1",  TRUE,  FALSE, FALSE, FALSE),
    TypeInfo(3,  "MBC_MBC1",  TRUE,  TRUE,  FALSE, FALSE),
    TypeInfo(5,  "MBC_MBC2",  FALSE, FALSE, FALSE, FALSE),
    TypeInfo(6,  "MBC_MBC2",  FALSE, TRUE,  FALSE, FALSE),
    TypeInfo(8,  "MBC_NONE",  TRUE,  FALSE, FALSE, FALSE),
    TypeInfo(9,  "MBC_NONE",  TRUE,  TRUE,  FALSE, FALSE),
    TypeInfo(11, "MBC_MMM01", FALSE, FALSE, FALSE, FALSE),
    TypeInfo(12, "MBC_MMM01", TRUE,  FALSE, FALSE, FALSE),
    TypeInfo(13, "MBC_MMM01", TRUE,  TRUE,  FALSE, FALSE),
    TypeInfo(15, "MBC_MBC3",  FALSE, TRUE,  TRUE,  FALSE),
    TypeInfo(16, "MBC_MBC3",  TRUE,  TRUE,  TRUE,  FALSE),
    TypeInfo(17, "MBC_MBC3",  FALSE, FALSE, FALSE, FALSE),
    TypeInfo(18, "MBC_MBC3",  TRUE,  FALSE, FALSE, FALSE),
    TypeInfo(19, "MBC_MBC3",  TRUE,  TRUE,  FALSE, FALSE),
    TypeInfo(21, "MBC_MBC4",  FALSE, FALSE, FALSE, FALSE),
    TypeInfo(22, "MBC_MBC4",  TRUE,  FALSE, FALSE, FALSE),
    TypeInfo(23, "MBC_MBC4",  TRUE,  TRUE,  FALSE, FALSE),
    TypeInfo(25, "MBC_MBC5",  FALSE, FALSE, FALSE, FALSE),
    TypeInfo(26, "MBC_MBC5",  TRUE,  FALSE, FALSE, FALSE),
    TypeInfo(27, "MBC_MBC5",  TRUE,  TRUE,  FALSE, FALSE),
    TypeInfo(28, "MBC_MBC5",  FALSE, FALSE, FALSE, TRUE),
    TypeInfo(29, "MBC_MBC5",  TRUE,  FALSE, FALSE, TRUE),
    TypeInfo(30, "MBC_MBC5",  TRUE,  TRUE,  FALSE, TRUE) >>

\* The value of the MBC_TYPE enum, as written into save states
MBC_ENUM(mbc) ==
    CASE mbc = "MBC_NONE" -> 0 [] mbc = "MBC_MBC1" -> 1 [] mbc = "MBC_MBC2" -> 2
      [] mbc = "MBC_MBC3" -> 3 [] mbc = "MBC_MBC4" -> 4 [] mbc = "MBC_MBC5" -> 5
      [] mbc = "MBC_MMM01" -> 6 [] OTHER -> 7

CART_EXTERNAL_RAM_SIZES == <<0, 2048, 8192, 32768, 65536, 131072>>

\* CART_ROM_BANK_COUNT: {rom size code, bank count}
CART_ROM_BANK_COUNT == <<
    <<0, 2>>, <<1, 4>>, <<2, 8>>, <<3, 16>>, <<4, 32>>, <<5, 64>>,
    <<6, 128>>, <<7, 256>>, <<82, 72>>, <<83, 80>>, <<84, 96>> >>

NULL == [null |-> TRUE]

\* Cartridge::Cartridge
NewCartridge ==
    [phase |-> "new",
     m_mbc |-> "NUM_MBC_TYPES",
     m_crc |-> 0,
     m_typeinfo |-> NULL,
     m_num_rom_banks |-> 0,
     m_external_ram |-> {},
     m_external_ram_size |-> 0,
     m_external_ram_modified |-> FALSE,
     m_mbc_data |-> [zero |-> TRUE],
     m_rtc_data |-> [zero |-> TRUE]]

\* Cartridge::ParseHeader: the first table row matching the type code
LookupTypeInfo(type) ==
    LET hits == {i \in 1..Len(CART_TYPEINFOS) : CART_TYPEINFOS[i].id = type}
    IN IF hits = {} THEN NULL
       ELSE CART_TYPEINFOS[CHOOSE i \in hits : \A j \in hits : i <= j]

\* Cartridge::ParseHeader: the bank count of a ROM size code, 0 when unknown
LookupRomBanks(rom_size) ==
    LET hits == {i \in 1..Len(CART_ROM_BANK_COUNT) : CART_ROM_BANK_COUNT[i][1] = rom_size}
    IN IF hits = {} THEN 0
       ELSE CART_ROM_BANK_COUNT[CHOOSE i \in hits : \A j \in hits : i <= j][2]

\* ParseHeader that keeps the header's bank count whatever the file size
ParseHeader_NoRecount(c, img) ==
    LET ti == LookupTypeInfo(img.type)
        banks == LookupRomBanks(img.rom_size)
    IN IF ti = NULL THEN [ok |-> FALSE, c |-> c]
       ELSE LET c1 == [c EXCEPT !.m_typeinfo = ti, !.m_mbc = ti.mbc,
                                !.m_num_rom_banks = banks]
            IN IF banks = 0 THEN [ok |-> FALSE, c |-> c1]
               ELSE IF img.ram_size >= Len(CART_EXTERNAL_RAM_SIZES)
                       \/ (img.ram_size > 0 /\ ~ti.ram)
               THEN [ok |-> FALSE, c |-> c1]
               ELSE [ok |-> TRUE,
                     c |-> [c1 EXCEPT !.m_external_ram_size =
                                         CART_EXTERNAL_RAM_SIZES[img.ram_size + 1]]]

\* Cartridge::ParseHeader on a ROM file img = [type, rom_size, ram_size, size, crc]
ParseHeader(c, img) ==
    LET ti == LookupTypeInfo(img.type)
        banks == LookupRomBanks(img.rom_size)
    IN IF ti = NULL THEN [ok |-> FALSE, c |-> c]
       ELSE LET c1 == [c EXCEPT !.m_typeinfo = ti, !.m_mbc = ti.mbc,
                                !.m_num_rom_banks = banks]
            IN IF banks = 0 THEN [ok |-> FALSE, c |-> c1]
               ELSE IF img.ram_size >= Len(CART_EXTERNAL_RAM_SIZES)
                       \/ (img.ram_size > 0 /\ ~ti.ram)
               THEN [ok |-> FALSE, c |-> c1]
               ELSE LET c2 == [c1 EXCEPT !.m_external_ram_size =
                                            CART_EXTERNAL_RAM_SIZES[img.ram_size + 1]]
                        recount == img.size > ROM_BANK_SIZE * banks /\ ti.mbc # "MBC_NONE"
                    IN [ok |-> TRUE,
                        c |-> IF recount
                              THEN [c2 EXCEPT !.m_num_rom_banks = img.size \div ROM_BANK_SIZE]
                              ELSE c2]

\* ------------------------------------------------------------------
\* Cartridge: external RAM, host callbacks, RTC
\* ------------------------------------------------------------------
\* m_external_ram is kept as the set of <<offset, byte>> pairs of its non-zero
\* bytes (Init zero-fills the buffer).
RamGet(ram, off) ==
    IF \E p \in ram : p[1] = off THEN (CHOOSE p \in ram : p[1] = off)[2] ELSE 0
RamSet(ram, off, value) ==
    {p \in ram : p[1] # off} \cup (IF value = 0 THEN {} ELSE {<<off, value>>})

NoFile == <<>>

\* Little-endian integer of n bytes at 1-based position pos of a byte sequence
ReadLE(bytes, pos, n) ==
    LET RECURSIVE go(_)
        go(i) == IF i = n THEN 0
                 ELSE (IF bytes[pos + i] = 0 THEN 0 ELSE bytes[pos + i] * (256 ^ i))
                      + go(i + 1)
    IN go(0)
\* n little-endian bytes of v; bytes beyond the range of the model's integers
\* are zero
WriteLE(v, n) == [i \in 1..n |-> IF i <= 4 THEN (v \div (256 ^ (i - 1))) % 256 ELSE 0]

\* SaveRAM that clears the modified flag without calling the host
SaveRAM_Silent(c) == [c |-> [c EXCEPT !.m_external_ram_modified = FALSE], ev |-> <<>>]

\* Cartridge::SaveRAM
SaveRAM(c) ==
    [c |-> [c EXCEPT !.m_external_ram_modified = FALSE],
     ev |-> IF c.m_external_ram_size > 0 /\ c.m_typeinfo.battery
            THEN << [cb |-> "SaveCartridgeRAM", data |-> c.m_external_ram] >>
            ELSE <<>>]

\* Cartridge::LoadRAM; ramFile is what the host's LoadCartridgeRAM delivers
LoadRAM(c, ramFile) ==
    IF c.m_external_ram_size = 0 \/ ~c.m_typeinfo.battery THEN c
    ELSE IF ramFile = NoFile THEN [c EXCEPT !.m_external_ram = {}]
    ELSE [c EXCEPT !.m_external_ram = ramFile[1]]

\* Cartridge::SaveRTC: the 16-byte record handed to SaveCartridgeRTC
SaveRTCBytes(rtc) ==
    WriteLE(rtc.base_time, 8) \o WriteLE(rtc.offset_days, 2)
      \o <<rtc.offset_hours, rtc.offset_minutes, rtc.offset_seconds, 0, 0, 0>>

\* Cartridge::SaveRTC
SaveRTC(c) ==
    IF ~c.m_typeinfo.timer THEN <<>>
    ELSE << [cb |-> "SaveCartridgeRTC", data |-> SaveRTCBytes(c.m_rtc_data)] >>

ZeroRTC ==
    [base_time |-> 0, offset_seconds |-> 0, offset_minutes |-> 0, offset_hours |-> 0,
     offset_days |-> 0, active |-> FALSE]

\* Cartridge::LoadRTC; rtcFile is what the host's LoadCartridgeRTC delivers
LoadRTC(c, rtcFile, t) ==
    IF ~c.m_typeinfo.timer THEN [c |-> [c EXCEPT !.m_rtc_data = ZeroRTC], ev |-> <<>>]
    ELSE IF rtcFile # NoFile
    THEN [c |-> [c EXCEPT !.m_rtc_data =
                   [base_time |-> ReadLE(rtcFile, 1, 8),
                    offset_seconds |-> rtcFile[9],
                    offset_minutes |-> rtcFile[10],
                    offset_hours |-> rtcFile[11],
                    offset_days |-> ReadLE(rtcFile, 12, 2),
                    active |-> rtcFile[14] # 0]],
          ev |-> <<>>]
    ELSE LET c1 == [c EXCEPT !.m_rtc_data = [ZeroRTC EXCEPT !.base_time = t]]
         IN [c |-> c1, ev |-> SaveRTC(c1)]

\* GetCurrentRTCTime that leaves the offset registers out of the elapsed time
GetCurrentRTCTime_NoOffsets(c, t) ==
    LET diff_time == t - c.m_rtc_data.base_time
    IN [seconds |-> diff_time % 60,
        minutes |-> (diff_time \div 60) % 60,
        hours |-> (diff_time \div 3600) % 24,
        days |-> diff_time \div 86400]

\* Cartridge::GetCurrentRTCTime at wall-clock time t (t >= base_time)
GetCurrentRTCTime(c, t) ==
    LET diff_time == (t - c.m_rtc_data.base_time)
                     + c.m_rtc_data.offset_seconds
                     + c.m_rtc_data.offset_minutes * 60
                     + c.m_rtc_data.offset_hours * 3600
                     + c.m_rtc_data.offset_days * 86400
    IN [seconds |-> diff_time % 60,
        minutes |-> (diff_time \div 60) % 60,
        hours |-> (diff_time \div 3600) % 24,
        days |-> diff_time \div 86400]

\* ------------------------------------------------------------------
\* Cartridge: bank selection
\* ------------------------------------------------------------------
\* The clamp "(uint8)m_num_rom_banks - 1" stored into a field of 2^bits values
ClampBank(num_rom_banks, width) == (U8(num_rom_banks) - 1) % width

\* MBC_MBC1_UpdateActiveBanks without the step from bank 0x00/0x20/0x40/0x60
\* to the next bank
MBC_MBC1_UpdateActiveBanks_NoRemap(c) ==
    LET d == c.m_mbc_data
        ram0 == IF d.bank_mode = 0 THEN 0 ELSE d.ram_bank_number % 4
        rom0 == IF d.bank_mode = 0
                THEN U8(U8(d.ram_bank_number * 32) + (d.rom_bank_number % 32))
                ELSE d.rom_bank_number
        rom2 == IF rom0 >= c.m_num_rom_banks THEN ClampBank(c.m_num_rom_banks, 256) ELSE rom0
    IN [c EXCEPT !.m_mbc_data.active_ram_bank = ram0,
                 !.m_mbc_data.active_rom_bank = rom2]

\* Cartridge::MBC_MBC1_UpdateActiveBanks
MBC_MBC1_UpdateActiveBanks(c) ==
    LET d == c.m_mbc_data
        ram0 == IF d.bank_mode = 0 THEN 0 ELSE d.ram_bank_number % 4
        rom0 == IF d.bank_mode = 0
                THEN U8(U8(d.ram_bank_number * 32) + (d.rom_bank_number % 32))
                ELSE d.rom_bank_number
        rom1 == IF rom0 \in {0, 32, 64, 96} THEN U8(rom0 + 1) ELSE rom0
        rom2 == IF rom1 >= c.m_num_rom_banks THEN ClampBank(c.m_num_rom_banks, 256) ELSE rom1
    IN [c EXCEPT !.m_mbc_data.active_ram_bank = ram0,
                 !.m_mbc_data.active_rom_bank = rom2]

\* Cartridge::MBC_MBC3_UpdateActiveBanks
MBC_MBC3_UpdateActiveBanks(c) ==
    LET rom0 == c.m_mbc_data.rom_bank_number
        rom1 == IF rom0 = 0 THEN 1 ELSE rom0
        rom2 == IF rom1 >= c.m_num_rom_banks THEN ClampBank(c.m_num_rom_banks, 256) ELSE rom1
    IN [c EXCEPT !.m_mbc_data.rom_bank_number = rom2]

\* Cartridge::MBC_MBC5_UpdateActiveBanks
MBC_MBC5_UpdateActiveBanks(c) ==
    LET rom0 == c.m_mbc_data.rom_bank_number
        rom1 == IF rom0 >= c.m_num_rom_banks THEN ClampBank(c.m_num_rom_banks, 65536) ELSE rom0
    IN [c EXCEPT !.m_mbc_data.active_rom_bank = rom1]

\* ------------------------------------------------------------------
\* Cartridge: reset, init, load
\* ------------------------------------------------------------------
\* Cartridge::MBC_MBC1_Reset
MBC_MBC1_Reset(c) ==
    MBC_MBC1_UpdateActiveBanks(
        [c EXCEPT !.m_mbc_data.ram_enable = FALSE, !.m_mbc_data.bank_mode = 0,
                  !.m_mbc_data.rom_bank_number = 1, !.m_mbc_data.ram_bank_number = 0])

\* Cartridge::MBC_MBC3_Reset
MBC_MBC3_Reset(c) ==
    MBC_MBC3_UpdateActiveBanks(
        [c EXCEPT !.m_mbc_data.rom_bank_number = 1, !.m_mbc_data.ram_bank_number = 0,
                  !.m_mbc_data.ram_rtc_enable = FALSE])

\* Cartridge::MBC_MBC5_Reset
MBC_MBC5_Reset(c) ==
    MBC_MBC5_UpdateActiveBanks(
        [c EXCEPT !.m_mbc_data.rom_bank_number = 1, !.m_mbc_data.ram_bank_number = 0,
                  !.m_mbc_data.ram_enable = FALSE])

\* Cartridge::Reset
Reset(c) ==
    CASE c.m_mbc = "MBC_MBC1" -> MBC_MBC1_Reset(c)
      [] c.m_mbc = "MBC_MBC3" -> MBC_MBC3_Reset(c)
      [] c.m_mbc = "MBC_MBC5" -> MBC_MBC5_Reset(c)
      [] OTHER -> c

\* The zero-filled m_mbc_data union, seen through each controller's fields
ZeroMBC1 == [ram_enable |-> FALSE, bank_mode |-> 0, rom_bank_number |-> 0,
             ram_bank_number |-> 0, active_rom_bank |-> 0, active_ram_bank |-> 0]
ZeroMBC3 == [rom_bank_number |-> 0, ram_bank_number |-> 0, ram_rtc_enable |-> FALSE,
             rtc_latch |-> 0, rtc_latch_data |-> <<0, 0, 0, 0, 0>>]
ZeroMBC5 == [rom_bank_number |-> 0, ram_bank_number |-> 0, ram_enable |-> FALSE,
             active_rom_bank |-> 0]

\* The controller set-up accepting every controller kind
MBC_Init_AnyKind(c) ==
    LET c1 == [c EXCEPT !.m_external_ram = {}]
    IN CASE c.m_mbc = "MBC_NONE" ->
              IF c.m_num_rom_banks # 2 THEN [ok |-> FALSE, c |-> c]
              ELSE [ok |-> TRUE, c |-> c1]
         [] c.m_mbc = "MBC_MBC1" ->
              [ok |-> TRUE, c |-> MBC_MBC1_Reset([c1 EXCEPT !.m_mbc_data = ZeroMBC1])]
         [] c.m_mbc = "MBC_MBC3" ->
              [ok |-> TRUE, c |-> MBC_MBC3_Reset([c1 EXCEPT !.m_mbc_data = ZeroMBC3])]
         [] c.m_mbc = "MBC_MBC5" ->
              [ok |-> TRUE, c |-> MBC_MBC5_Reset([c1 EXCEPT !.m_mbc_data = ZeroMBC5])]
         [] OTHER -> [ok |-> TRUE, c |-> c1]

\* Cartridge::MBC_NONE_Init, MBC_MBC1_Init, MBC_MBC3_Init, MBC_MBC5_Init
MBC_Init(c) ==
    LET c1 == [c EXCEPT !.m_external_ram = {}]
    IN CASE c.m_mbc = "MBC_NONE" ->
              IF c.m_num_rom_banks # 2 THEN [ok |-> FALSE, c |-> c]
              ELSE [ok |-> TRUE, c |-> c1]
         [] c.m_mbc = "MBC_MBC1" ->
              [ok |-> TRUE, c |-> MBC_MBC1_Reset([c1 EXCEPT !.m_mbc_data = ZeroMBC1])]
         [] c.m_mbc = "MBC_MBC3" ->
              [ok |-> TRUE, c |-> MBC_MBC3_Reset([c1 EXCEPT !.m_mbc_data = ZeroMBC3])]
         [] c.m_mbc = "MBC_MBC5" ->
              [ok |-> TRUE, c |-> MBC_MBC5_Reset([c1 EXCEPT !.m_mbc_data = ZeroMBC5])]
         [] OTHER -> [ok |-> FALSE, c |-> c]

\* Cartridge::Load of the ROM file img at wall-clock time t
Load(c, img, ramFile, rtcFile, t) ==
    LET c0 == [c EXCEPT !.m_crc = img.crc]
        h == ParseHeader(c0, img)
        failed(x) == [ok |-> FALSE, c |-> [x EXCEPT !.phase = "failed"], ev |-> <<>>]
    IN IF ~h.ok THEN failed(h.c)
       ELSE IF img.size < h.c.m_num_rom_banks * ROM_BANK_SIZE THEN failed(h.c)
       ELSE LET m == MBC_Init(h.c)
            IN IF ~m.ok THEN failed(m.c)
               ELSE LET r == LoadRTC(LoadRAM(m.c, ramFile), rtcFile, t)
                    IN [ok |-> TRUE, c |-> [r.c EXCEPT !.phase = "loaded"], ev |-> r.ev]

\* ------------------------------------------------------------------
\* Cartridge: CPU writes.  Each returns [c: the cartridge after the write,
\* ev: the host callbacks invoked, in order].
\* ------------------------------------------------------------------
Window(address) == address \div 4096
InRamWindow(address) == address >= 40960 /\ address < 49152
NoEv(c) == [c |-> c, ev |-> <<>>]

\* The store into external RAM shared by MBC1, MBC3 and MBC5
\* (uint16 eram_offset = bank * 8192 + (address - 0xA000))
WriteExternalRAM(c, bank, address, value) ==
    LET eram_offset == U16(bank * RAM_BANK_SIZE + (address - 40960))
    IN IF eram_offset < c.m_external_ram_size
       THEN [c EXCEPT !.m_external_ram = RamSet(c.m_external_ram, eram_offset, value),
                      !.m_external_ram_modified =
                          c.m_external_ram_modified
                          \/ RamGet(c.m_external_ram, eram_offset) # value]
       ELSE c

\* Cartridge::MBC_NONE_Write
MBC_NONE_Write(c, address, value) ==
    IF InRamWindow(address) /\ c.m_external_ram_size > 0
       /\ address - 40960 < c.m_external_ram_size
    THEN NoEv([c EXCEPT !.m_external_ram = RamSet(c.m_external_ram, address - 40960, value)])
    ELSE NoEv(c)

\* MBC_MBC1_Write that stores into RAM whether or not RAM is enabled
MBC_MBC1_Write_NoEnableCheck(c, address, value) ==
    CASE Window(address) \in {0, 1} ->
           LET c1 == [c EXCEPT !.m_mbc_data.ram_enable = (value = 10)]
           IN IF ~c1.m_mbc_data.ram_enable /\ c1.m_external_ram_modified
              THEN SaveRAM(c1) ELSE NoEv(c1)
      [] Window(address) \in {2, 3} ->
           NoEv(MBC_MBC1_UpdateActiveBanks([c EXCEPT !.m_mbc_data.rom_bank_number = value]))
      [] Window(address) \in {4, 5} ->
           NoEv(MBC_MBC1_UpdateActiveBanks([c EXCEPT !.m_mbc_data.ram_bank_number = value]))
      [] Window(address) \in {6, 7} ->
           NoEv(MBC_MBC1_UpdateActiveBanks([c EXCEPT !.m_mbc_data.bank_mode = value]))
      [] OTHER ->
           IF InRamWindow(address) /\ c.m_external_ram_size > 0
           THEN NoEv(WriteExternalRAM(c, c.m_mbc_data.active_ram_bank, address, value))
           ELSE NoEv(c)

\* Cartridge::MBC_MBC1_Write
MBC_MBC1_Write(c, address, value) ==
    CASE Window(address) \in {0, 1} ->
           LET c1 == [c EXCEPT !.m_mbc_data.ram_enable = (value = 10)]
           IN IF ~c1.m_mbc_data.ram_enable /\ c1.m_external_ram_modified
              THEN SaveRAM(c1) ELSE NoEv(c1)
      [] Window(address) \in {2, 3} ->
           NoEv(MBC_MBC1_UpdateActiveBanks([c EXCEPT !.m_mbc_data.rom_bank_number = value]))
      [] Window(address) \in {4, 5} ->
           NoEv(MBC_MBC1_UpdateActiveBanks([c EXCEPT !.m_mbc_data.ram_bank_number = value]))
      [] Window(address) \in {6, 7} ->
           NoEv(MBC_MBC1_UpdateActiveBanks([c EXCEPT !.m_mbc_data.bank_mode = value]))
      [] OTHER ->
           IF InRamWindow(address) /\ c.m_external_ram_size > 0 /\ c.m_mbc_data.ram_enable
           THEN NoEv(WriteExternalRAM(c, c.m_mbc_data.active_ram_bank, address, value))
           ELSE NoEv(c)

\* Cartridge::MBC_MBC3_Write, the 0x6000-0x7FFF window: the RTC latch
MBC_MBC3_WriteLatch(c, value, t) ==
    LET current_time == GetCurrentRTCTime(c, t)
        latched == << U8(current_time.seconds), U8(current_time.minutes),
                      U8(current_time.hours), current_time.days % 256,
                      ((current_time.days \div 256) % 2)
                        + (IF current_time.days >= 512 THEN 128 ELSE 0) >>
        c1 == IF c.m_mbc_data.rtc_latch # 1 /\ value = 1
              THEN [c EXCEPT !.m_mbc_data.rtc_latch_data = latched]
              ELSE c
    IN [c1 EXCEPT !.m_mbc_data.rtc_latch = value]

\* Cartridge::MBC_MBC3_Write, the RTC register selected by 0x08..0x0C
MBC_MBC3_WriteRTC(c, value) ==
    LET sel == c.m_mbc_data.ram_bank_number
        rtc == c.m_rtc_data
        changed(c1) == [c |-> c1, ev |-> IF c1.m_rtc_data # rtc THEN SaveRTC(c1) ELSE <<>>]
    IN CASE sel = 8 -> changed([c EXCEPT !.m_rtc_data.offset_seconds = value])
         [] sel = 9 -> changed([c EXCEPT !.m_rtc_data.offset_minutes = value])
         [] sel = 10 -> changed([c EXCEPT !.m_rtc_data.offset_hours = value])
         [] sel = 11 ->
              changed([c EXCEPT !.m_rtc_data.offset_days =
                                   ((rtc.offset_days \div 256) % 4) * 256 + value])
         [] sel = 12 ->
              LET days == (rtc.offset_days % 256) + (value % 2) * 256
                          + Bit(value, 7) * 512
                  c1 == [c EXCEPT !.m_rtc_data.offset_days = days]
              IN [c |-> [c1 EXCEPT !.m_rtc_data.active = (Bit(value, 6) = 0)],
                  ev |-> IF days # rtc.offset_days THEN SaveRTC(c1) ELSE <<>>]

\* MBC_MBC3_Write that stores all eight bits of the ROM bank number
MBC_MBC3_Write_NoMask(c, address, value, t) ==
    CASE Window(address) \in {0, 1} ->
           LET c1 == [c EXCEPT !.m_mbc_data.ram_rtc_enable = (value = 10)]
           IN IF ~c1.m_mbc_data.ram_rtc_enable /\ c1.m_external_ram_modified
              THEN SaveRAM(c1) ELSE NoEv(c1)
      [] Window(address) \in {2, 3} ->
           NoEv(MBC_MBC3_UpdateActiveBanks([c EXCEPT !.m_mbc_data.rom_bank_number = value]))
      [] Window(address) \in {4, 5} ->
           NoEv(MBC_MBC3_UpdateActiveBanks([c EXCEPT !.m_mbc_data.ram_bank_number = value]))
      [] Window(address) \in {6, 7} -> NoEv(MBC_MBC3_WriteLatch(c, value, t))
      [] OTHER ->
           IF InRamWindow(address) /\ c.m_mbc_data.ram_rtc_enable
           THEN IF c.m_mbc_data.ram_bank_number <= 7
                THEN NoEv(WriteExternalRAM(c, c.m_mbc_data.ram_bank_number, address, value))
                ELSE IF c.m_mbc_data.ram_bank_number <= 12
                THEN MBC_MBC3_WriteRTC(c, value)
                ELSE NoEv(c)
           ELSE NoEv(c)

\* Cartridge::MBC_MBC3_Write at wall-clock time t
MBC_MBC3_Write(c, address, value, t) ==
    CASE Window(address) \in {0, 1} ->
           LET c1 == [c EXCEPT !.m_mbc_data.ram_rtc_enable = (value = 10)]
           IN IF ~c1.m_mbc_data.ram_rtc_enable /\ c1.m_external_ram_modified
              THEN SaveRAM(c1) ELSE NoEv(c1)
      [] Window(address) \in {2, 3} ->
           NoEv(MBC_MBC3_UpdateActiveBanks([c EXCEPT !.m_mbc_data.rom_bank_number = value % 128]))
      [] Window(address) \in {4, 5} ->
           NoEv(MBC_MBC3_UpdateActiveBanks([c EXCEPT !.m_mbc_data.ram_bank_number = value]))
      [] Window(address) \in {6, 7} -> NoEv(MBC_MBC3_WriteLatch(c, value, t))
      [] OTHER ->
           IF InRamWindow(address) /\ c.m_mbc_data.ram_rtc_enable
           THEN IF c.m_mbc_data.ram_bank_number <= 7
                THEN NoEv(WriteExternalRAM(c, c.m_mbc_data.ram_bank_number, address, value))
                ELSE IF c.m_mbc_data.ram_bank_number <= 12
                THEN MBC_MBC3_WriteRTC(c, value)
                ELSE NoEv(c)
           ELSE NoEv(c)

\* MBC_MBC5_Write where a write of the low byte clears bit 8 of the selector
MBC_MBC5_Write_LowClearsHigh(c, address, value) ==
    CASE Window(address) \in {0, 1} ->
           LET c1 == [c EXCEPT !.m_mbc_data.ram_enable = (value = 10)]
           IN IF ~c1.m_mbc_data.ram_enable /\ c1.m_external_ram_modified
              THEN SaveRAM(c1) ELSE NoEv(c1)
      [] Window(address) = 2 ->
           NoEv(MBC_MBC5_UpdateActiveBanks([c EXCEPT !.m_mbc_data.rom_bank_number = value]))
      [] Window(address) = 3 ->
           NoEv(MBC_MBC5_UpdateActiveBanks(
                  [c EXCEPT !.m_mbc_data.rom_bank_number =
                               (c.m_mbc_data.rom_bank_number % 256) + (value % 2) * 256]))
      [] Window(address) \in {4, 5} ->
           NoEv(MBC_MBC5_UpdateActiveBanks([c EXCEPT !.m_mbc_data.ram_bank_number = value]))
      [] OTHER ->
           IF InRamWindow(address) /\ c.m_mbc_data.ram_enable
           THEN NoEv(WriteExternalRAM(c, c.m_mbc_data.ram_bank_number, address, value))
           ELSE NoEv(c)

\* Cartridge::MBC_MBC5_Write
MBC_MBC5_Write(c, address, value) ==
    CASE Window(address) \in {0, 1} ->
           LET c1 == [c EXCEPT !.m_mbc_data.ram_enable = (value = 10)]
           IN IF ~c1.m_mbc_data.ram_enable /\ c1.m_external_ram_modified
              THEN SaveRAM(c1) ELSE NoEv(c1)
      [] Window(address) = 2 ->
           NoEv(MBC_MBC5_UpdateActiveBanks(
                  [c EXCEPT !.m_mbc_data.rom_bank_number =
                               ((c.m_mbc_data.rom_bank_number \div 256) % 2) * 256 + value]))
      [] Window(address) = 3 ->
           NoEv(MBC_MBC5_UpdateActiveBanks(
                  [c EXCEPT !.m_mbc_data.rom_bank_number =
                               (c.m_mbc_data.rom_bank_number % 256) + (value % 2) * 256]))
      [] Window(address) \in {4, 5} ->
           NoEv(MBC_MBC5_UpdateActiveBanks([c EXCEPT !.m_mbc_data.ram_bank_number = value]))
      [] OTHER ->
           IF InRamWindow(address) /\ c.m_mbc_data.ram_enable
           THEN NoEv(WriteExternalRAM(c, c.m_mbc_data.ram_bank_number, address, value))
           ELSE NoEv(c)

\* Cartridge::CPUWrite at wall-clock time t
CPUWrite(c, address, value, t) ==
    CASE c.m_mbc = "MBC_NONE" -> MBC_NONE_Write(c, address, value)
      [] c.m_mbc = "MBC_MBC1" -> MBC_MBC1_Write(c, address, value)
      [] c.m_mbc = "MBC_MBC3" -> MBC_MBC3_Write(c, address, value, t)
      [] c.m_mbc = "MBC_MBC5" -> MBC_MBC5_Write(c, address, value)
      [] OTHER -> NoEv(c)

\* ------------------------------------------------------------------
\* Cartridge: CPU reads
\* ------------------------------------------------------------------
\* Contents of the ROM file: byte `off` of bank `bank`
RomByte(bank, off) == (bank * 16 + (off % 16)) % 256

\* Marks a read outside the m_rom_banks array (undefined behaviour)
OutOfBounds == 0 - 1

\* m_rom_banks[bank][off]
ReadRomBank(c, bank, off) ==
    IF bank < c.m_num_rom_banks THEN RomByte(bank, off) ELSE OutOfBounds

\* The load from external RAM shared by MBC1, MBC3 and MBC5; 0x00 when the
\* offset is outside the buffer
ReadExternalRAM(c, bank, address) ==
    LET eram_offset == U16(bank * RAM_BANK_SIZE + (address - 40960))
    IN IF eram_offset < c.m_external_ram_size
       THEN RamGet(c.m_external_ram, eram_offset) ELSE 0

\* Cartridge::MBC_NONE_Read
MBC_NONE_Read(c, address) ==
    CASE Window(address) \in {0, 1, 2, 3} -> ReadRomBank(c, 0, address)
      [] Window(address) \in {4, 5, 6, 7} -> ReadRomBank(c, 1, address % 16384)
      [] Window(address) \in {10, 11} ->
           IF c.m_external_ram_size > 0 /\ address - 40960 < c.m_external_ram_size
           THEN RamGet(c.m_external_ram, address - 40960) ELSE 0
      [] OTHER -> 0

\* MBC_MBC1_Read taking the switchable bank from the raw register
MBC_MBC1_Read_RawRegister(c, address) ==
    CASE Window(address) \in {0, 1, 2, 3} -> ReadRomBank(c, 0, address)
      [] Window(address) \in {4, 5, 6, 7} ->
           ReadRomBank(c, c.m_mbc_data.rom_bank_number, address % 16384)
      [] Window(address) \in {10, 11} ->
           IF c.m_external_ram_size > 0 /\ c.m_mbc_data.ram_enable
           THEN ReadExternalRAM(c, c.m_mbc_data.active_ram_bank, address) ELSE 0
      [] OTHER -> 0

\* Cartridge::MBC_MBC1_Read
MBC_MBC1_Read(c, address) ==
    CASE Window(address) \in {0, 1, 2, 3} -> ReadRomBank(c, 0, address)
      [] Window(address) \in {4, 5, 6, 7} ->
           ReadRomBank(c, c.m_mbc_data.active_rom_bank, address % 16384)
      [] Window(address) \in {10, 11} ->
           IF c.m_external_ram_size > 0 /\ c.m_mbc_data.ram_enable
           THEN ReadExternalRAM(c, c.m_mbc_data.active_ram_bank, address) ELSE 0
      [] OTHER -> 0

\* Cartridge::MBC_MBC3_Read
MBC_MBC3_Read(c, address) ==
    CASE Window(address) \in {0, 1, 2, 3} -> ReadRomBank(c, 0, address)
      [] Window(address) \in {4, 5, 6, 7} ->
           ReadRomBank(c, c.m_mbc_data.rom_bank_number, address % 16384)
      [] Window(address) \in {10, 11} ->
           IF ~c.m_mbc_data.ram_rtc_enable THEN 0
           ELSE IF c.m_mbc_data.ram_bank_number <= 7
           THEN ReadExternalRAM(c, c.m_mbc_data.ram_bank_number, address)
           ELSE IF c.m_mbc_data.ram_bank_number <= 12
           THEN c.m_mbc_data.rtc_latch_data[c.m_mbc_data.ram_bank_number - 8 + 1]
           ELSE 0
      [] OTHER -> 0

\* Cartridge::MBC_MBC5_Read
MBC_MBC5_Read(c, address) ==
    CASE Window(address) \in {0, 1, 2, 3} -> ReadRomBank(c, 0, address)
      [] Window(address) \in {4, 5, 6, 7} ->
           ReadRomBank(c, c.m_mbc_data.active_rom_bank, address % 16384)
      [] Window(address) \in {10, 11} ->
           IF c.m_mbc_data.ram_enable
           THEN ReadExternalRAM(c, c.m_mbc_data.ram_bank_number, address) ELSE 0
      [] OTHER -> 0

\* Cartridge::CPURead
CPURead(c, address) ==
    CASE c.m_mbc = "MBC_NONE" -> MBC_NONE_Read(c, address)
      [] c.m_mbc = "MBC_MBC1" -> MBC_MBC1_Read(c, address)
      [] c.m_mbc = "MBC_MBC3" -> MBC_MBC3_Read(c, address)
      [] c.m_mbc = "MBC_MBC5" -> MBC_MBC5_Read(c, address)
      [] OTHER -> 0

\* The ROM bank CPURead uses for 0x4000-0x7FFF
MappedRomBank(c) ==
    CASE c.m_mbc = "MBC_MBC1" -> c.m_mbc_data.active_rom_bank
      [] c.m_mbc = "MBC_MBC3" -> c.m_mbc_data.rom_bank_number
      [] c.m_mbc = "MBC_MBC5" -> c.m_mbc_data.active_rom_bank
      [] OTHER -> 1

\* ------------------------------------------------------------------
\* Cartridge: save states.  The stream is the sequence of values written by
\* the BinaryWriter, each reduced to the width of its Write call; the RAM
\* block is one element.
\* ------------------------------------------------------------------
NoStream == <<>>
BoolByte(b) == IF b THEN 1 ELSE 0
\* ~x of a uint32, as the int32 with the same bits
Not32(x) == 0 - x - 1

\* Cartridge::MBC_MBC1_SaveState, MBC_MBC3_SaveState, MBC_MBC5_SaveState
MBC_SaveState(c) ==
    LET d == c.m_mbc_data
    IN CASE c.m_mbc = "MBC_MBC1" ->
              << U8(d.active_rom_bank), U8(d.active_ram_bank), BoolByte(d.ram_enable),
                 U8(d.bank_mode), U8(d.rom_bank_number), U8(d.ram_bank_number) >>
         [] c.m_mbc = "MBC_MBC3" ->
              << U8(d.rom_bank_number), U8(d.ram_bank_number), BoolByte(d.ram_rtc_enable) >>
         [] c.m_mbc = "MBC_MBC5" ->
              << U16(d.active_rom_bank), U16(d.rom_bank_number), U8(d.ram_bank_number),
                 BoolByte(d.ram_enable) >>
         [] OTHER -> <<>>

\* Cartridge::SaveState
SaveState(c) ==
    << c.m_crc, c.m_external_ram_size >>
    \o (IF c.m_external_ram_size > 0 THEN << c.m_external_ram >> ELSE <<>>)
    \o << BoolByte(c.m_typeinfo.timer) >>
    \o (IF c.m_typeinfo.timer
        THEN << c.m_rtc_data.base_time, U16(c.m_rtc_data.offset_days),
                U8(c.m_rtc_data.offset_hours), U8(c.m_rtc_data.offset_minutes),
                U8(c.m_rtc_data.offset_seconds), BoolByte(c.m_rtc_data.active) >>
        ELSE <<>>)
    \o << MBC_ENUM(c.m_mbc) >>
    \o MBC_SaveState(c)
    \o << Not32(MBC_ENUM(c.m_mbc)) >>

\* Cartridge::MBC_MBC1_LoadState, MBC_MBC3_LoadState, MBC_MBC5_LoadState, reading
\* the stream s from position p on: [ok, c, next position]
MBC_LoadState(c, s, p) ==
    CASE c.m_mbc = "MBC_MBC1" ->
           LET c1 == [c EXCEPT !.m_mbc_data.active_rom_bank = s[p],
                               !.m_mbc_data.active_ram_bank = s[p + 1],
                               !.m_mbc_data.ram_enable = (s[p + 2] # 0),
                               !.m_mbc_data.bank_mode = s[p + 3],
                               !.m_mbc_data.rom_bank_number = s[p + 4],
                               !.m_mbc_data.ram_bank_number = s[p + 5]]
           IN [ok |-> c1.m_mbc_data.active_rom_bank < c.m_num_rom_banks, c |-> c1, p |-> p + 6]
      [] c.m_mbc = "MBC_MBC3" ->
           LET c1 == [c EXCEPT !.m_mbc_data.rom_bank_number = s[p],
                               !.m_mbc_data.ram_bank_number = s[p + 1],
                               !.m_mbc_data.ram_rtc_enable = (s[p + 2] # 0)]
           IN [ok |-> c1.m_mbc_data.rom_bank_number < c.m_num_rom_banks, c |-> c1, p |-> p + 3]
      [] c.m_mbc = "MBC_MBC5" ->
           LET c1 == [c EXCEPT !.m_mbc_data.active_rom_bank = s[p],
                               !.m_mbc_data.rom_bank_number = s[p + 1],
                               !.m_mbc_data.ram_bank_number = s[p + 2],
                               !.m_mbc_data.ram_enable = (s[p + 3] # 0)]
           IN [ok |-> c1.m_mbc_data.active_rom_bank < c.m_num_rom_banks, c |-> c1, p |-> p + 4]
      [] OTHER -> [ok |-> TRUE, c |-> c, p |-> p]

\* Cartridge::LoadState from the RAM size comparison on
LoadState_AfterCrc(c, s) ==
    LET external_ram_size == s[2]
        pRam == 3
        c1 == IF external_ram_size > 0 THEN [c EXCEPT !.m_external_ram = s[pRam]] ELSE c
        pTimer == IF external_ram_size > 0 THEN pRam + 1 ELSE pRam
        has_timer == s[pTimer] # 0
        c2 == IF has_timer
              THEN [c1 EXCEPT !.m_rtc_data =
                       [base_time |-> s[pTimer + 1], offset_days |-> s[pTimer + 2],
                        offset_hours |-> s[pTimer + 3], offset_minutes |-> s[pTimer + 4],
                        offset_seconds |-> s[pTimer + 5], active |-> (s[pTimer + 6] # 0)]]
              ELSE c1
        pMbc == IF has_timer THEN pTimer + 7 ELSE pTimer + 1
        m == MBC_LoadState(c2, s, pMbc + 1)
    IN IF c.m_external_ram_size # external_ram_size THEN [ok |-> FALSE, c |-> c]
       ELSE IF s[pMbc] # MBC_ENUM(c.m_mbc) THEN [ok |-> FALSE, c |-> c2]
       ELSE IF ~m.ok THEN [ok |-> FALSE, c |-> m.c]
       ELSE IF s[m.p] # Not32(MBC_ENUM(c.m_mbc)) THEN [ok |-> FALSE, c |-> m.c]
       ELSE [ok |-> TRUE, c |-> m.c]

\* LoadState that does not compare the CRC
LoadState_NoCrcCheck(c, s) == LoadState_AfterCrc(c, s)

\* Cartridge::LoadState
LoadState(c, s) ==
    IF s[1] # c.m_crc THEN [ok |-> FALSE, c |-> c] ELSE LoadState_AfterCrc(c, s)

\* ------------------------------------------------------------------
\* Cartridge: the operations as actions
\* ------------------------------------------------------------------
Img(type, rom_size, ram_size, size, crc) ==
    [type |-> type, rom_size |-> rom_size, ram_size |-> ram_size, size |-> size, crc |-> crc]

\* ROM files offered to Load: [header type code, ROM size code, RAM size code,
\* file size in bytes, CRC32 of the file]
RomImages == {
    Img(1, 6, 0, 128 * ROM_BANK_SIZE, 101),        \* MBC1, 128 banks
    Img(3, 2, 3, 8 * ROM_BANK_SIZE, 102),          \* MBC1+RAM+BATTERY, 8 banks, 32 KiB
    Img(16, 1, 2, 4 * ROM_BANK_SIZE, 103),         \* MBC3+TIMER+RAM+BATTERY, 4 banks, 8 KiB
    Img(25, 7, 0, 256 * ROM_BANK_SIZE, 104),       \* MBC5, 256 banks
    Img(27, 0, 2, 3 * ROM_BANK_SIZE + 100, 105),   \* MBC5+RAM+BATTERY, file of 3 banks
    Img(25, 7, 0, 300 * ROM_BANK_SIZE, 106),       \* MBC5, file of 300 banks
    Img(9, 0, 2, 2 * ROM_BANK_SIZE, 107),          \* ROM+RAM+BATTERY
    Img(5, 0, 0, 2 * ROM_BANK_SIZE, 108),          \* MBC2: not implemented
    Img(4, 0, 0, 2 * ROM_BANK_SIZE, 109),          \* unknown type code
    Img(1, 8, 0, 2 * ROM_BANK_SIZE, 110),          \* unknown ROM size code
    Img(1, 0, 1, 2 * ROM_BANK_SIZE, 111),          \* RAM size on a type without RAM
    Img(1, 2, 0, 4 * ROM_BANK_SIZE, 112) }         \* file shorter than its header says

\* What the host's LoadCartridgeRAM / LoadCartridgeRTC deliver at Load
RamFiles == {NoFile}
RtcFiles == {NoFile}

\* Wall-clock time at start, the steps it advances by, and how often
StartTime == 1000
TimeSteps == {3661}
MaxClockAdvances == 1

\* Addresses the CPU writes to and reads from
WriteAddresses == {0, 8192, 12288, 16384, 24576, 32768, 40960}
ReadAddresses == {16384, 40960}

\* Values the CPU writes, per controller and address
WriteValues(c, address) ==
    LET w == Window(address)
    IN CASE c.m_mbc = "MBC_MBC1" ->
              (CASE w \in {0, 1} -> {0, 10}
                 [] w \in {2, 3} -> {0, 1, 2, 3, 4, 5, 6, 7, 32, 33, 64, 96, 255}
                 [] w \in {4, 5} -> {0, 1, 2, 3, 4}
                 [] w \in {6, 7} -> {0, 1}
                 [] OTHER -> {0, 90})
         [] c.m_mbc = "MBC_MBC3" ->
              (CASE w \in {0, 1} -> {0, 10}
                 [] w \in {2, 3} -> {0, 131, 127}
                 [] w \in {4, 5} -> {0, 8, 12}
                 [] w \in {6, 7} -> {0, 1, 2}
                 [] OTHER -> {0, 65})
         [] c.m_mbc = "MBC_MBC5" ->
              (CASE w \in {0, 1} -> {0, 10}
                 [] w = 2 -> {0, 1, 43, 255}
                 [] w = 3 -> {0, 1, 254}
                 [] w \in {4, 5} -> {0, 1, 8}
                 [] OTHER -> {0, 90})
         [] OTHER -> {0, 90}

NoWrite == 0 - 1

\* The MBC register a write address selects: 0x2000-0x2FFF and 0x3000-0x3FFF
\* are one register on MBC1 and MBC3 and two on MBC5
RegisterOf(c, address) ==
    LET w == Window(address)
    IN CASE w \in {2, 3} -> (IF c.m_mbc = "MBC_MBC5" THEN w ELSE 2)
         [] w \in {4, 5} -> 4
         [] w \in {6, 7} -> 6
         [] OTHER -> 0

NoBusOp == [op |-> "none", address |-> 0, value |-> 0]

InitCartridge ==
    /\ cart = NewCartridge
    /\ now = StartTime
    /\ lastOp = [op |-> "Cartridge", ok |-> TRUE, ret |-> 0]
    /\ hostEvents = <<>>
    /\ lastWritten = [r \in {2, 3, 4, 6} |-> NoWrite]
    /\ stateStream = NoStream
    /\ savedCart = NewCartridge
    /\ busOp = NoBusOp
    /\ romFile = Img(0, 0, 0, 0, 0)

\* Cartridge::Load on one of the given ROM files
LoadFrom(images) ==
    /\ cart.phase = "new"
    /\ \E img \in images, ramFile \in RamFiles, rtcFile \in RtcFiles :
         LET r == Load(cart, img, ramFile, rtcFile, now)
         IN /\ cart' = r.c
            /\ lastOp' = [op |-> "Load", ok |-> r.ok, ret |-> 0]
            /\ hostEvents' = r.ev
            /\ romFile' = img
    /\ UNCHANGED <<now, lastWritten, stateVars>>
    /\ UNCHANGED <<displayVars, busOp>>

LoadAct == LoadFrom(RomImages)

\* Cartridge::CPUWrite of one value to one address
CPUWriteOf(address, value) ==
    LET r == CPUWrite(cart, address, value, now)
        reg == RegisterOf(cart, address)
    IN /\ cart' = r.c
       /\ hostEvents' = r.ev
       /\ lastWritten' = IF reg \in DOMAIN lastWritten
                         THEN [lastWritten EXCEPT ![reg] = value]
                         ELSE lastWritten
       /\ lastOp' = [op |-> "CPUWrite", ok |-> TRUE, ret |-> 0]
       /\ UNCHANGED <<now, stateVars>>
       /\ UNCHANGED <<displayVars, busOp, romFile>>

CPUWriteAct ==
    /\ cart.phase = "loaded"
    /\ \E address \in WriteAddresses :
         \E value \in WriteValues(cart, address) : CPUWriteOf(address, value)

\* Cartridge::CPURead; a read outside the ROM bank array may return any byte
CPUReadAct ==
    /\ cart.phase = "loaded"
    /\ \E address \in ReadAddresses :
         LET r == CPURead(cart, address)
         IN \E v \in (IF r = OutOfBounds THEN {0, 255} ELSE {r}) :
              lastOp' = [op |-> "CPURead", ok |-> TRUE, ret |-> v]
    /\ hostEvents' = <<>>
    /\ UNCHANGED <<cart, now, lastWritten, stateVars>>
    /\ UNCHANGED <<displayVars, busOp, romFile>>

\* Wall-clock time passes
ClockAdvance ==
    /\ cart.phase = "loaded"
    /\ cart.m_typeinfo.timer
    /\ \E d \in TimeSteps :
         /\ now + d <= StartTime + MaxClockAdvances * 3661
         /\ now' = now + d
    /\ UNCHANGED <<cart, lastOp, hostEvents, lastWritten, stateVars>>
    /\ UNCHANGED <<displayVars, busOp, romFile>>

\* ROM files of the save-state runs
StateImages == {
    Img(3, 2, 3, 8 * ROM_BANK_SIZE, 102),          \* MBC1+RAM+BATTERY, 8 banks, 32 KiB
    Img(15, 1, 0, 4 * ROM_BANK_SIZE, 113),         \* MBC3+TIMER+BATTERY, 4 banks
    Img(27, 0, 2, 3 * ROM_BANK_SIZE + 100, 105) }  \* MBC5+RAM+BATTERY, file of 3 banks

StateWriteAddresses == {0, 8192, 16384, 24576, 40960}

StateWriteValues(c, address) ==
    LET w == Window(address)
    IN CASE c.m_mbc = "MBC_MBC1" ->
              (CASE w \in {0, 1} -> {10}
                 [] w \in {2, 3} -> {3}
                 [] w \in {4, 5} -> {1}
                 [] w \in {6, 7} -> {1}
                 [] OTHER -> {90})
         [] c.m_mbc = "MBC_MBC3" ->
              (CASE w \in {0, 1} -> {10}
                 [] w \in {2, 3} -> {3}
                 [] w \in {4, 5} -> {8}
                 [] w \in {6, 7} -> {0, 1}
                 [] OTHER -> {65})
         [] OTHER ->
              (CASE w \in {0, 1} -> {10}
                 [] w \in {2, 3} -> {2}
                 [] w \in {4, 5} -> {1}
                 [] w \in {6, 7} -> {0}
                 [] OTHER -> {90})

LoadStateImage == LoadFrom(StateImages)

CPUWriteState ==
    /\ cart.phase = "loaded"
    /\ \E address \in StateWriteAddresses :
         \E value \in StateWriteValues(cart, address) : CPUWriteOf(address, value)

\* Cartridge::SaveState, once per run
SaveStateAct ==
    /\ cart.phase = "loaded"
    /\ stateStream = NoStream
    /\ stateStream' = SaveState(cart)
    /\ savedCart' = cart
    /\ lastOp' = [op |-> "SaveState", ok |-> TRUE, ret |-> 0]
    /\ hostEvents' = <<>>
    /\ UNCHANGED <<cart, now, lastWritten, hostVars>>
    /\ UNCHANGED <<displayVars, busOp, romFile>>

\* The stream as a state saved under another ROM would begin
OtherRom(s) == [s EXCEPT ![1] = s[1] + 1]

\* Cartridge::LoadState on the saved stream or on one of another ROM;
\* lastOp.ret is the leading CRC of the stream that was read
LoadStateAct ==
    /\ cart.phase = "loaded"
    /\ stateStream # NoStream
    /\ \E s \in {stateStream, OtherRom(stateStream)} :
         LET r == LoadState(cart, s)
         IN /\ cart' = r.c
            /\ lastOp' = [op |-> "LoadState", ok |-> r.ok, ret |-> s[1]]
    /\ hostEvents' = <<>>
    /\ UNCHANGED <<now, lastWritten, stateVars>>
    /\ UNCHANGED <<displayVars, busOp, romFile>>

\* Where the MBC kind stands in a save-state stream
StreamMbcPos(s) ==
    LET pTimer == IF s[2] > 0 THEN 4 ELSE 3
    IN IF s[pTimer] # 0 THEN pTimer + 7 ELSE pTimer + 1

\* Streams LoadState refuses: of another ROM, of another RAM size, of another
\* MBC kind, and with a wrong trailing sentinel
RefusedStreams(s) ==
    {OtherRom(s),
     [s EXCEPT ![2] = s[2] + 1],
     [s EXCEPT ![StreamMbcPos(s)] = s[StreamMbcPos(s)] + 1],
     [s EXCEPT ![Len(s)] = 0]}

\* Cartridge::LoadState on a stream it refuses
LoadRefusedStateAct ==
    /\ cart.phase = "loaded"
    /\ stateStream # NoStream
    /\ \E s \in RefusedStreams(stateStream) :
         LET r == LoadState(cart, s)
         IN /\ cart' = r.c
            /\ lastOp' = [op |-> "LoadState", ok |-> r.ok, ret |-> s[1]]
    /\ hostEvents' = <<>>
    /\ UNCHANGED <<now, lastWritten, stateVars>>
    /\ UNCHANGED <<displayVars, busOp, romFile>>

NextRefused ==
    \/ LoadStateImage
    \/ CPUWriteState
    \/ SaveStateAct
    \/ LoadRefusedStateAct

\* ROM files of the external-RAM runs
RamImages == {
    Img(1, 6, 0, 128 * ROM_BANK_SIZE, 101),        \* MBC1, no RAM
    Img(3, 2, 3, 8 * ROM_BANK_SIZE, 102),          \* MBC1+RAM+BATTERY, 32 KiB
    Img(16, 1, 2, 4 * ROM_BANK_SIZE, 103),         \* MBC3+TIMER+RAM+BATTERY, 8 KiB
    Img(27, 0, 2, 3 * ROM_BANK_SIZE + 100, 105),   \* MBC5+RAM+BATTERY, 8 KiB
    Img(9, 0, 2, 2 * ROM_BANK_SIZE, 107) }         \* ROM+RAM+BATTERY, 8 KiB

RamWriteAddresses == {0, 16384, 40960}
\* 0x4000 is a mapped ROM address, 0x8000 is not the cartridge's, 0xA000 is RAM
RamReadAddresses == {16384, 32768, 40960}

RamWriteValues(c, address) ==
    LET w == Window(address)
    IN CASE w \in {0, 1} -> {0, 10, 26}
         [] w \in {4, 5} -> (IF c.m_mbc = "MBC_MBC3" THEN {0, 8} ELSE {0, 1})
         [] OTHER -> {0, 90}

LoadRamImage == LoadFrom(RamImages)

\* Cartridge::CPUWrite, remembering what was written where
CPUWriteRam ==
    /\ cart.phase = "loaded"
    /\ \E address \in RamWriteAddresses :
         \E value \in RamWriteValues(cart, address) :
           LET r == CPUWrite(cart, address, value, now)
           IN /\ cart' = r.c
              /\ hostEvents' = r.ev
              /\ busOp' = [op |-> "CPUWrite", address |-> address, value |-> value]
    /\ lastOp' = [op |-> "CPUWrite", ok |-> TRUE, ret |-> 0]
    /\ UNCHANGED <<now, lastWritten, stateVars>>
    /\ UNCHANGED <<displayVars, romFile>>

\* Cartridge::CPURead, remembering what was read where
CPUReadRam ==
    /\ cart.phase = "loaded"
    /\ \E address \in RamReadAddresses :
         LET r == CPURead(cart, address)
         IN \E v \in (IF r = OutOfBounds THEN {0, 255} ELSE {r}) :
              /\ lastOp' = [op |-> "CPURead", ok |-> TRUE, ret |-> v]
              /\ busOp' = [op |-> "CPURead", address |-> address, value |-> v]
    /\ hostEvents' = <<>>
    /\ UNCHANGED <<cart, now, lastWritten, stateVars>>
    /\ UNCHANGED <<displayVars, romFile>>

\* Cartridge::Reset (System::Reset)
ResetAct ==
    /\ cart.phase = "loaded"
    /\ cart' = Reset(cart)
    /\ lastOp' = [op |-> "Reset", ok |-> TRUE, ret |-> 0]
    /\ busOp' = [op |-> "Reset", address |-> 0, value |-> 0]
    /\ hostEvents' = <<>>
    /\ UNCHANGED <<now, lastWritten, stateVars>>
    /\ UNCHANGED <<displayVars, romFile>>

\* The MBC3 cartridge with a clock, and the bus traffic that reaches the clock:
\* RAM/RTC enable, the register selects 0x08-0x0C, the latch, and the selected
\* register at 0xA000
RtcImages == { Img(15, 1, 0, 4 * ROM_BANK_SIZE, 113) }

\* What the host's LoadCartridgeRTC delivers for the clock cartridge: nothing,
\* or a record of base_time 900, 5 s, 7 min, 9 h, 300 days, active
RtcSavedFiles == { NoFile,
                   WriteLE(900, 8) \o <<5, 7, 9>> \o WriteLE(300, 2) \o <<1, 0, 0>> }
RtcWriteAddresses == {0, 16384, 24576, 40960}
RtcReadAddresses == {40960}
RtcWriteValues(address) ==
    LET w == Window(address)
    IN CASE w \in {0, 1} -> {10}
         [] w \in {4, 5} -> {8, 9, 10, 11, 12}
         [] w \in {6, 7} -> {0, 1}
         [] OTHER -> {61}

\* Cartridge::Load of the clock cartridge
LoadRtcImage ==
    /\ cart.phase = "new"
    /\ \E img \in RtcImages, rtcFile \in RtcSavedFiles :
         LET r == Load(cart, img, NoFile, rtcFile, now)
         IN /\ cart' = r.c
            /\ lastOp' = [op |-> "Load", ok |-> r.ok, ret |-> 0]
            /\ hostEvents' = r.ev
            /\ romFile' = img
    /\ UNCHANGED <<now, lastWritten, stateVars>>
    /\ UNCHANGED <<displayVars, busOp>>

\* Cartridge::CPUWrite on the clock cartridge
CPUWriteRtc ==
    /\ cart.phase = "loaded"
    /\ \E address \in RtcWriteAddresses :
         \E value \in RtcWriteValues(address) : CPUWriteOf(address, value)

\* Cartridge::CPURead on the clock cartridge
CPUReadRtc ==
    /\ cart.phase = "loaded"
    /\ \E address \in RtcReadAddresses :
         lastOp' = [op |-> "CPURead", ok |-> TRUE, ret |-> CPURead(cart, address)]
    /\ hostEvents' = <<>>
    /\ UNCHANGED <<cart, now, lastWritten, stateVars>>
    /\ UNCHANGED <<displayVars, busOp, romFile>>

NextRtc == LoadRtcImage \/ CPUWriteRtc \/ CPUReadRtc \/ ClockAdvance

\* The clock cartridge with a saved record whose clock is running, and the
\* bus traffic that reaches the day-high register: values with the halt bit
\* (0x40), with the carry and day bit 8 (0x81), and with neither
HaltSavedFiles == RtcSavedFiles \ {NoFile}
HaltWriteAddresses == {0, 16384, 24576, 40960}
HaltWriteValues(address) ==
    LET w == Window(address)
    IN CASE w \in {0, 1} -> {10}
         [] w \in {4, 5} -> {8, 12}
         [] w \in {6, 7} -> {0, 1}
         [] OTHER -> {0, 64, 129}

\* Cartridge::Load of the clock cartridge with its saved record
LoadHaltImage ==
    /\ cart.phase = "new"
    /\ \E img \in RtcImages, rtcFile \in HaltSavedFiles :
         LET r == Load(cart, img, NoFile, rtcFile, now)
         IN /\ cart' = r.c
            /\ lastOp' = [op |-> "Load", ok |-> r.ok, ret |-> 0]
            /\ hostEvents' = r.ev
            /\ romFile' = img
    /\ UNCHANGED <<now, lastWritten, stateVars>>
    /\ UNCHANGED <<displayVars, busOp>>

\* Cartridge::CPUWrite towards the clock, remembering what was written where
CPUWriteHalt ==
    /\ cart.phase = "loaded"
    /\ \E address \in HaltWriteAddresses :
         \E value \in HaltWriteValues(address) :
           LET r == CPUWrite(cart, address, value, now)
           IN /\ cart' = r.c
              /\ hostEvents' = r.ev
              /\ busOp' = [op |-> "CPUWrite", address |-> address, value |-> value]
    /\ lastOp' = [op |-> "CPUWrite", ok |-> TRUE, ret |-> 0]
    /\ UNCHANGED <<now, lastWritten, stateVars>>
    /\ UNCHANGED <<displayVars, romFile>>

NextHalt == LoadHaltImage \/ CPUWriteHalt \/ ClockAdvance

\* Plain MBC3 cartridges of 128 and of 4 banks, and writes of ROM bank numbers
\* with and without bit 7
Bank3Images == { Img(17, 6, 0, 128 * ROM_BANK_SIZE, 114),
                 Img(17, 1, 0, 4 * ROM_BANK_SIZE, 115) }
Bank3WriteAddresses == {8192, 12288, 16384}
Bank3WriteValues(address) ==
    IF Window(address) \in {2, 3} THEN {0, 1, 2, 3, 127, 128, 130, 255} ELSE {0, 3}

LoadBank3Image == LoadFrom(Bank3Images)

\* Cartridge::CPUWrite of a bank number to the MBC3
CPUWriteBank3 ==
    /\ cart.phase = "loaded"
    /\ \E address \in Bank3WriteAddresses :
         \E value \in Bank3WriteValues(address) : CPUWriteOf(address, value)

\* Cartridge::CPURead of the switchable ROM window
CPUReadBank3 ==
    /\ cart.phase = "loaded"
    /\ \E address \in {16384, 16384 + 4660} :
         lastOp' = [op |-> "CPURead", ok |-> TRUE, ret |-> CPURead(cart, address)]
    /\ hostEvents' = <<>>
    /\ UNCHANGED <<cart, now, lastWritten, stateVars>>
    /\ UNCHANGED <<displayVars, busOp, romFile>>

NextBank3 == LoadBank3Image \/ CPUWriteBank3 \/ CPUReadBank3

\* Cartridges with banked RAM: MBC5 with 128 KiB (16 banks) and MBC3 with
\* 32 KiB (4 banks); the RAM is enabled, a bank is selected, and the first two
\* bytes of the RAM window are written and read
BankedImages == { Img(27, 1, 5, 4 * ROM_BANK_SIZE, 116),
                  Img(19, 1, 3, 4 * ROM_BANK_SIZE, 117) }
BankedAddresses == {0, 16384, 40960, 40961}
BankedWriteValues(c, address) ==
    LET w == Window(address)
    IN CASE w \in {0, 1} -> {10}
         [] w \in {4, 5} -> (IF c.m_mbc = "MBC_MBC5" THEN {0, 1, 8, 9, 15} ELSE {0, 1, 3})
         [] OTHER -> {0, 90}

LoadBankedImage == LoadFrom(BankedImages)

\* Cartridge::CPUWrite to the banked RAM and its registers
CPUWriteBanked ==
    /\ cart.phase = "loaded"
    /\ \E address \in BankedAddresses :
         \E value \in BankedWriteValues(cart, address) :
           LET r == CPUWrite(cart, address, value, now)
           IN /\ cart' = r.c
              /\ hostEvents' = r.ev
              /\ busOp' = [op |-> "CPUWrite", address |-> address, value |-> value]
    /\ lastOp' = [op |-> "CPUWrite", ok |-> TRUE, ret |-> 0]
    /\ UNCHANGED <<now, lastWritten, stateVars>>
    /\ UNCHANGED <<displayVars, romFile>>

\* Cartridge::CPURead of the banked RAM
CPUReadBanked ==
    /\ cart.phase = "loaded"
    /\ \E address \in {40960, 40961} :
         LET r == CPURead(cart, address)
         IN /\ lastOp' = [op |-> "CPURead", ok |-> TRUE, ret |-> r]
            /\ busOp' = [op |-> "CPURead", address |-> address, value |-> r]
    /\ hostEvents' = <<>>
    /\ UNCHANGED <<cart, now, lastWritten, stateVars>>
    /\ UNCHANGED <<displayVars, romFile>>

NextBanked == LoadBankedImage \/ CPUWriteBanked \/ CPUReadBanked

\* ---- Host start-up (main.cpp) ----

NullPtr == "nullptr"

\* The command-line words tried, and the files behind them: rom.gb is a
\* loadable MBC1 ROM, bad.gb a file whose header names no known cartridge
\* type, none.gb does not exist; bios.bin may or may not exist
HostArgWords == {"-h", "-b", "-db", "rom.gb", "bad.gb", "none.gb"}
MaxArgs == 3
HostArgLists == UNION {[1..n -> HostArgWords] : n \in 0..MaxArgs}
HostRomFiles ==
    [f \in {"rom.gb", "bad.gb"} |->
        IF f = "rom.gb" THEN Img(1, 1, 0, 4 * ROM_BANK_SIZE, 130)
        ELSE Img(255, 1, 0, 4 * ROM_BANK_SIZE, 131)]

\* ParseArguments from argv[i] on; argv holds argv[1..argc-1]
RECURSIVE ParseArgumentsFrom(_, _, _)
ParseArgumentsFrom(argv, i, out) ==
    IF i > Len(argv) THEN [ok |-> TRUE, args |-> out]
    ELSE IF argv[i] \in {"-h", "-?"} THEN [ok |-> FALSE, args |-> out]
    ELSE IF argv[i] = "-b" /\ i + 1 <= Len(argv)
         THEN ParseArgumentsFrom(argv, i + 2, [out EXCEPT !.bios_filename = argv[i + 1]])
    ELSE IF argv[i] = "-db"
         THEN ParseArgumentsFrom(argv, i + 1, [out EXCEPT !.disable_bios = TRUE])
    ELSE ParseArgumentsFrom(argv, i + 1, [out EXCEPT !.cart_filename = argv[i]])

\* ParseArguments
ParseArguments(argv) ==
    ParseArgumentsFrom(argv, 1, [bios_filename |-> NullPtr, cart_filename |-> NullPtr,
                                 disable_bios |-> FALSE])

InitHost ==
    /\ args = [bios_filename |-> NullPtr, cart_filename |-> NullPtr, disable_bios |-> FALSE]
    /\ state = [bios |-> NullPtr, cart |-> NullPtr, system |-> NullPtr, window |-> NullPtr]
    /\ hostPc = "main"

\* main: ParseArguments, then the first assignments of InitializeState
HostParseArguments ==
    /\ hostPc = "main"
    /\ \E argv \in HostArgLists :
          LET p == ParseArguments(argv)
          IN /\ args' = p.args
             /\ hostPc' = IF p.ok THEN "load_bios" ELSE "exit"
    /\ UNCHANGED state
    /\ UNCHANGED <<cart, now, lastOp, hostEvents, lastWritten, stateStream, savedCart,
                   busOp, romFile>>
    /\ UNCHANGED displayVars

\* InitializeState: load bios. LoadBIOS succeeds on a file of the BIOS length:
\* bios.bin when it exists, never one of the ROM files
HostLoadBIOS ==
    /\ hostPc = "load_bios"
    /\ LET bios_specified == args.bios_filename # NullPtr
       IN \E loaded \in (IF args.disable_bios THEN {FALSE}
                          ELSE IF bios_specified THEN {FALSE} ELSE BOOLEAN) :
             /\ state' = [state EXCEPT !.bios = IF loaded THEN "bios" ELSE NullPtr]
             /\ hostPc' = IF ~args.disable_bios /\ ~loaded /\ bios_specified
                          THEN "failed" ELSE "load_cart"
    /\ UNCHANGED args
    /\ UNCHANGED <<cart, now, lastOp, hostEvents, lastWritten, stateStream, savedCart,
                   busOp, romFile>>
    /\ UNCHANGED displayVars

\* InitializeState: load cart, with LoadCart
HostLoadCart ==
    /\ hostPc = "load_cart"
    /\ IF args.cart_filename = NullPtr
       THEN /\ hostPc' = "window_title"
            /\ UNCHANGED <<state, cart, lastOp, hostEvents, romFile>>
       ELSE IF args.cart_filename \notin DOMAIN HostRomFiles
       THEN /\ hostPc' = "failed"
            /\ UNCHANGED <<state, cart, lastOp, hostEvents, romFile>>
       ELSE LET r == Load(NewCartridge, HostRomFiles[args.cart_filename], NoFile, NoFile, now)
            IN /\ state' = [state EXCEPT !.cart = "cart"]
               /\ cart' = r.c
               /\ lastOp' = [op |-> "Load", ok |-> r.ok, ret |-> 0]
               /\ hostEvents' = r.ev
               /\ romFile' = HostRomFiles[args.cart_filename]
               /\ hostPc' = IF r.ok THEN "window_title" ELSE "failed"
    /\ UNCHANGED args
    /\ UNCHANGED <<now, lastWritten, stateStream, savedCart, busOp>>
    /\ UNCHANGED displayVars

\* InitializeState: state->cart->GetName() for the window title, then the
\* window and its surface. Reading the name through a null pointer is
\* undefined: the program crashes or goes on with some title
HostCreateWindow ==
    /\ hostPc = "window_title"
    /\ \E window \in {NullPtr, "window"} :
          /\ state' = [state EXCEPT !.window = window]
          /\ hostPc' \in (IF window = NullPtr THEN {"failed"} ELSE {"system_init"})
                            \cup (IF state.cart = NullPtr THEN {"crashed"} ELSE {})
    /\ UNCHANGED args
    /\ UNCHANGED <<cart, now, lastOp, hostEvents, lastWritten, stateStream, savedCart,
                   busOp, romFile>>
    /\ UNCHANGED displayVars

\* InitializeState: new System, System::Init(state, state->bios, state->cart),
\* System::Reset
HostSystemInit ==
    /\ hostPc = "system_init"
    /\ state' = [state EXCEPT !.system = "system"]
    /\ \E ok \in BOOLEAN :
          hostPc' \in (IF ok THEN {"run"} ELSE {"failed"})
                        \cup (IF state.cart = NullPtr THEN {"crashed"} ELSE {})
    /\ UNCHANGED args
    /\ UNCHANGED <<cart, now, lastOp, hostEvents, lastWritten, stateStream, savedCart,
                   busOp, romFile>>
    /\ UNCHANGED displayVars

NextHost ==
    \/ HostParseArguments
    \/ HostLoadBIOS
    \/ HostLoadCart
    \/ HostCreateWindow
    \/ HostSystemInit

\* ---- Cartridge::Reset against a fresh load ----

\* Bus writes before and after a reset: RAM enable, the RAM bank or RTC
\* register select, the clock latch, and a byte of RAM
ResetWriteAddresses == {0, 16384, 24576, 40960}
ResetWriteValues(c, address) ==
    LET w == Window(address)
    IN CASE w \in {0, 1} -> {0, 10}
         [] w \in {4, 5} -> (IF c.m_mbc = "MBC_MBC3" THEN {0, 8} ELSE {0, 1})
         [] w \in {6, 7} -> {0, 1}
         [] OTHER -> {90}

\* Cartridge::CPUWrite before a reset
CPUWriteReset ==
    /\ cart.phase = "loaded"
    /\ \E address \in ResetWriteAddresses :
         \E value \in ResetWriteValues(cart, address) :
           LET r == CPUWrite(cart, address, value, now)
           IN /\ cart' = r.c
              /\ hostEvents' = r.ev
              /\ busOp' = [op |-> "CPUWrite", address |-> address, value |-> value]
    /\ lastOp' = [op |-> "CPUWrite", ok |-> TRUE, ret |-> 0]
    /\ UNCHANGED <<now, lastWritten, stateVars>>
    /\ UNCHANGED <<displayVars, romFile>>

NextReset == LoadRamImage \/ CPUWriteReset \/ ClockAdvance \/ ResetAct

\* ---- ROM bank selection over the bank counts a load produces ----

\* MBC1 and MBC3 ROM files: 4 banks as the header says, and files one bank
\* longer than the header's 32 or 64 banks, which ParseHeader counts as 33
\* and 65 banks
BankCountImages ==
    { Img(1, 1, 0, 4 * ROM_BANK_SIZE, 120), Img(1, 4, 0, 33 * ROM_BANK_SIZE, 121),
      Img(1, 5, 0, 65 * ROM_BANK_SIZE, 122), Img(19, 1, 0, 4 * ROM_BANK_SIZE, 123),
      Img(19, 4, 0, 33 * ROM_BANK_SIZE, 124) }
BankCountAddresses == {8192, 16384, 24576}
BankCountWriteValues(address) ==
    CASE Window(address) \in {2, 3} -> {0, 1, 31, 32, 33, 64, 96, 127}
      [] Window(address) \in {4, 5} -> {0, 1, 2, 3}
      [] OTHER -> {0, 1}

LoadBankCountImage == LoadFrom(BankCountImages)

\* Cartridge::CPUWrite to the bank registers
CPUWriteBankCount ==
    /\ cart.phase = "loaded"
    /\ \E address \in BankCountAddresses :
         \E value \in BankCountWriteValues(address) :
           LET r == CPUWrite(cart, address, value, now)
           IN /\ cart' = r.c
              /\ hostEvents' = r.ev
              /\ busOp' = [op |-> "CPUWrite", address |-> address, value |-> value]
    /\ lastOp' = [op |-> "CPUWrite", ok |-> TRUE, ret |-> 0]
    /\ UNCHANGED <<now, lastWritten, stateVars>>
    /\ UNCHANGED <<displayVars, romFile>>

NextBankCount == LoadBankCountImage \/ CPUWriteBankCount \/ ResetAct

\* Header codes and file sizes of the ROM files offered for the header checks:
\* every type code 0x00-0x1F, the ROM size codes 0x00-0x08 and 0x52-0x55, the
\* RAM size codes 0-6, and files of exactly the header's size, 100 bytes more,
\* one bank more and one byte less
HeaderTypeCodes == 0..31
HeaderRomCodes == (0..8) \cup (82..85)
HeaderRamCodes == 0..6
HeaderFileSizes(rom_size) ==
    LET b == IF LookupRomBanks(rom_size) = 0 THEN 2 ELSE LookupRomBanks(rom_size)
    IN {b * ROM_BANK_SIZE, b * ROM_BANK_SIZE + 100, (b + 1) * ROM_BANK_SIZE,
        b * ROM_BANK_SIZE - 1}

HeaderImages ==
    UNION {{Img(t, r, m, sz, 200) : sz \in HeaderFileSizes(r)} :
              <<t, r, m>> \in HeaderTypeCodes \X HeaderRomCodes \X HeaderRamCodes}

LoadHeader == LoadFrom(HeaderImages)

NextLoad == LoadHeader

NextRam ==
    \/ LoadRamImage
    \/ CPUWriteRam
    \/ CPUReadRam
    \/ ResetAct

NextState ==
    \/ LoadStateImage
    \/ CPUWriteState
    \/ ClockAdvance
    \/ SaveStateAct
    \/ LoadStateAct

Next ==
    \/ LoadAct
    \/ CPUWriteAct
    \/ CPUReadAct
    \/ ClockAdvance

Init == InitDisplay /\ InitCartridge /\ InitHost

NextDisplay == Step

SpecDisplay == Init /\ [][NextDisplay]_vars

\* The PPU mode machine with the STAT interrupt sources set up by the program
SpecPpu == Init /\ [][NextPpu]_vars

\* ---- Bus writes to video memory while the display runs ----

SnapshotLastLine == 1
SnapshotWriteClocks == {1, 100}

\* 16 bytes of tile data of one colour
SolidTile(tile, color) ==
    {<<tile * 16 + k, 255>> : k \in {n \in 0..15 : Bit(color, n % 2) = 1}}

\* VRAM with byte value at offset off
VramPut(mem, off, value) ==
    {p \in mem : p[1] # off} \cup (IF value = 0 THEN {} ELSE {<<off, value>>})

\* The program turns the display on: background and sprites enabled, tile
\* data at 0x8000, identity palettes, tile 1 of colour 3, tile 2 of colour 2
WriteSnapshotScene ==
    /\ tick = 0
    /\ m_registers.LCDC = 0
    /\ m_registers' = [m_registers EXCEPT !.LCDC = 147, !.BGP = 228, !.OBP0 = 228]
    /\ vram' = SolidTile(1, 3) \cup SolidTile(2, 2)
    /\ UNCHANGED <<m_mode, m_modeClocksRemaining, m_currentScanLine, pushFrameBuffer,
                   irqs, tick, nFrameReady, nVBlankIrq,
                   oam, m_vramCopy, m_oamCopy, m_frameBuffer, atMode3Entry>>
    /\ UNCHANGED cartVars

\* A bus write to the first background map entry (0x9800)
WriteVRAM ==
    /\ m_registers.LCDC # 0
    /\ m_modeClocksRemaining \in SnapshotWriteClocks
    /\ \E value \in {0, 1} :
          /\ VramGet(vram, 6144) # value
          /\ vram' = VramPut(vram, 6144, value)
    /\ UNCHANGED <<m_mode, m_modeClocksRemaining, m_currentScanLine, m_registers,
                   pushFrameBuffer, irqs, tick, nFrameReady, nVBlankIrq,
                   oam, m_vramCopy, m_oamCopy, m_frameBuffer, atMode3Entry>>
    /\ UNCHANGED cartVars

\* A bus write to the first OAM entry (0xFE00..0xFE03): a sprite of tile 2 at
\* pixels 8..15 of lines 0..7, or nothing
WriteOAM ==
    /\ m_registers.LCDC # 0
    /\ m_modeClocksRemaining \in SnapshotWriteClocks
    /\ \E entry \in {ZeroEntry, OamEntry(16, 16, 2, 0, 0, 0, 0)} :
          /\ OamGet(oam, 0) # entry
          /\ oam' = IF entry = ZeroEntry THEN {} ELSE {<<0, entry>>}
    /\ UNCHANGED <<m_mode, m_modeClocksRemaining, m_currentScanLine, m_registers,
                   pushFrameBuffer, irqs, tick, nFrameReady, nVBlankIrq,
                   vram, m_vramCopy, m_oamCopy, m_frameBuffer, atMode3Entry>>
    /\ UNCHANGED cartVars

StepSnapshot ==
    /\ m_currentScanLine <= SnapshotLastLine
    /\ Step

NextSnapshot == WriteSnapshotScene \/ WriteVRAM \/ WriteOAM \/ StepSnapshot

SpecSnapshot == Init /\ [][NextSnapshot]_vars

\* ---- Rendering of prepared scenes ----

RenderLastLine == 10

\* Background scenes: the two map rows of lines 0..15 hold tile id t, and one
\* tile of colour 3 lies at offset t*16 or at offset 0x1000 + s*16 (s: t as a
\* signed byte); display and background on, LCDC bit 4 set or clear
BgTileIds == {0, 127, 128, 255}
MapFill(t) == {<<6144 + k, t>> : k \in 0..63} \ {<<6144 + k, 0>> : k \in 0..63}
SignedTile(t) == IF t >= 128 THEN t - 256 ELSE t
BgScenes ==
    {[LCDC |-> 129 + 16 * bit4, BGP |-> 228, OBP0 |-> 0,
      vram |-> MapFill(t) \cup SolidTile(dataTile, 3),
      oam |-> {}] :
        <<t, bit4, dataTile>> \in
            {<<t, bit4, d>> \in BgTileIds \X {0, 1} \X (0..383) :
                d = t \/ d = 256 + SignedTile(t)}}

\* Sprite scenes: display and sprites on, background off, tile 1 of colour 3
\* and tile 2 of colour 2, the sprites on lines 10..17
SpriteRow(entries) ==
    {<<i - 1, entries[i]>> : i \in 1..Len(entries)}
Reverse(entries) == [i \in 1..Len(entries) |-> entries[Len(entries) + 1 - i]]
SpriteA == OamEntry(26, 20, 2, 0, 0, 0, 0)
SpriteB == OamEntry(26, 15, 2, 0, 0, 0, 0)
OverlapA == OamEntry(26, 20, 2, 0, 0, 0, 0)
OverlapB == OamEntry(26, 17, 1, 0, 0, 0, 0)
ElevenSprites == [i \in 1..11 |-> OamEntry(26, 8 * i, 2, 0, 0, 0, 0)]
SpriteLists ==
    {<<SpriteA, SpriteB>>, <<SpriteB, SpriteA>>, <<OverlapA, OverlapB>>,
     <<OverlapB, OverlapA>>, ElevenSprites, Reverse(ElevenSprites)}
SpriteScenes ==
    {[LCDC |-> 130, BGP |-> 0, OBP0 |-> 228,
      vram |-> SolidTile(1, 3) \cup SolidTile(2, 2),
      oam |-> SpriteRow(entries)] : entries \in SpriteLists}

RenderScenes == BgScenes \cup SpriteScenes

\* The program writes a scene and turns the display on
WriteRenderScene ==
    /\ tick = 0
    /\ m_registers.LCDC = 0
    /\ \E scene \in RenderScenes :
          /\ m_registers' = [m_registers EXCEPT !.LCDC = scene.LCDC, !.BGP = scene.BGP,
                                                !.OBP0 = scene.OBP0]
          /\ vram' = scene.vram
          /\ oam' = scene.oam
    /\ UNCHANGED <<m_mode, m_modeClocksRemaining, m_currentScanLine, pushFrameBuffer,
                   irqs, tick, nFrameReady, nVBlankIrq,
                   m_vramCopy, m_oamCopy, m_frameBuffer, atMode3Entry>>
    /\ UNCHANGED cartVars

StepRender ==
    /\ m_currentScanLine <= RenderLastLine
    /\ Step

NextRender == WriteRenderScene \/ StepRender

SpecRender == Init /\ [][NextRender]_vars

\* ---- Rendering of single sprites ----

\* One sprite of tile 2 on lines 2..9 (8x8) or 2..17 (8x16), with every
\* combination of flips and both sprite heights, and one sprite of the empty
\* tile 0 on lines 10..17; background off, tile 2 of colour 2, tile 3 of
\* colour 3
SingleSprites ==
    {<<OamEntry(18, 60, 2, 0, hflip, vflip, 0), LCDC>> :
        <<hflip, vflip, LCDC>> \in {0, 1} \X {0, 1} \X {130, 134}}
      \cup {<<OamEntry(26, 40, 0, 0, 0, 0, 0), 130>>}

\* The program writes one sprite and turns the display on
WriteSingleSprite ==
    /\ tick = 0
    /\ m_registers.LCDC = 0
    /\ \E scene \in SingleSprites :
          /\ m_registers' = [m_registers EXCEPT !.LCDC = scene[2], !.OBP0 = 228]
          /\ vram' = SolidTile(2, 2) \cup SolidTile(3, 3)
          /\ oam' = {<<0, scene[1]>>}
    /\ UNCHANGED <<m_mode, m_modeClocksRemaining, m_currentScanLine, pushFrameBuffer,
                   irqs, tick, nFrameReady, nVBlankIrq,
                   m_vramCopy, m_oamCopy, m_frameBuffer, atMode3Entry>>
    /\ UNCHANGED cartVars

NextSprite == WriteSingleSprite \/ StepRender

SpecSprite == Init /\ [][NextSprite]_vars

\* The cartridge on the CPU bus
Spec == Init /\ [][Next]_vars

\* The cartridge under save and load of states
SpecState == Init /\ [][NextState]_vars

\* The MBC3 real-time clock on the bus, with wall-clock time passing
SpecRtc == Init /\ [][NextRtc]_vars

\* The MBC3 real-time clock and its halt flag
SpecHalt == Init /\ [][NextHalt]_vars

\* ROM bank selection on the MBC3
SpecBank3 == Init /\ [][NextBank3]_vars

\* Cartridge::Load over the header codes
SpecLoad == Init /\ [][NextLoad]_vars

\* The cartridge's external RAM on the bus, with resets
SpecRam == Init /\ [][NextRam]_vars

\* The cartridge under loads of refused states
SpecRefused == Init /\ [][NextRefused]_vars

\* Banked external RAM on the bus
SpecBanked == Init /\ [][NextBanked]_vars

\* ROM bank selection over the bank counts a load produces
SpecBankCount == Init /\ [][NextBankCount]_vars

\* The cartridge under bus writes, passing time and resets
SpecReset == Init /\ [][NextReset]_vars

\* Host start-up over the argument lists
SpecHost == Init /\ [][NextHost]_vars

\* ------------------------------------------------------------------
\* Properties of the Display state machine
\* ------------------------------------------------------------------
\* Position inside the frame after `tick` Step calls of the window
FramePos == tick % (154 * 456)
ExpectedLine == FramePos \div 456
ExpectedMode ==
    LET p == FramePos % 456
    IN IF ExpectedLine < 144
       THEN (IF p < 80 THEN 2 ELSE IF p < 80 + 172 THEN 3 ELSE 0)
       ELSE 1

\* C1: stepping once per T-cycle from Reset, on every scanline 0..143 the mode
\* is 2 for the first 80 steps, 3 for the next 172 and 0 for the last 204, and
\* on every scanline 144..153 the mode is 1 for all 456 steps.
C1_ModeTrace ==
    /\ m_currentScanLine = ExpectedLine
    /\ m_mode = ExpectedMode

\* C1 witness: the last T-cycle of the last VBlank line is reached, after all
\* 144 visible lines went through modes 2, 3 and 0.
C1_Witness ==
    /\ tick = 153 * 456 + 455
    /\ m_currentScanLine = 153
    /\ m_mode = 1

\* C2: in every window of 70,224 Step calls exactly one call returns
\* frame-ready and the VBlank interrupt is requested exactly once, both on
\* step 65,664 of the window, and after step 70,224 the PPU is back in mode 2
\* on line 0 with 80 clocks remaining.
C2_FrameTiming ==
    /\ pushFrameBuffer => tick = 65664
    /\ CountOf(irqs, "VBLANK") > 0 => tick = 65664
    /\ tick = 65664 => (pushFrameBuffer /\ CountOf(irqs, "VBLANK") = 1)
    /\ tick = 70224 =>
          /\ nFrameReady = 1
          /\ nVBlankIrq = 1
          /\ m_mode = 2
          /\ m_currentScanLine = 0
          /\ m_modeClocksRemaining = 80

\* C2 witness: the end of a full window, with the frame delivered.
C2_Witness == tick = 70224 /\ nFrameReady = 1 /\ nVBlankIrq = 1

\* C3: after every change of LY (every SetScanline), STAT bit 2 is 1 exactly
\* when LY = LYC.
C3_CoincidenceBit ==
    [][m_registers'.LY # m_registers.LY =>
         (Bit(m_registers'.STAT, 2) = 1 <=> m_registers'.LY = m_registers'.LYC)]_vars

\* ------------------------------------------------------------------
\* Properties of the cartridge's bank switching
\* ------------------------------------------------------------------
Loaded(mbc) == cart.phase = "loaded" /\ cart.m_mbc = mbc

\* The value a register holds: the last value written, or its reset value
Written(reg, resetValue) ==
    IF lastWritten[reg] = NoWrite THEN resetValue ELSE lastWritten[reg]

ZeroToOne(bank) == IF bank = 0 THEN 1 ELSE bank

\* The ROM bank selector the program has set up, before any clamp
ProgrammedSelector ==
    CASE cart.m_mbc = "MBC_MBC1" ->
           LET rom == Written(2, 1)
               upper == Written(4, 0)
               sel == IF Written(6, 0) = 0 THEN ((upper * 32) % 256) + (rom % 32) ELSE rom
           IN IF sel \in {0, 32, 64, 96} THEN sel + 1 ELSE sel
      [] cart.m_mbc = "MBC_MBC3" -> ZeroToOne(Written(2, 1) % 128)
      [] cart.m_mbc = "MBC_MBC5" -> (Written(3, 0) % 2) * 256 + Written(2, 1)
      [] OTHER -> 1

\* C4: for MBC1, MBC3 and MBC5 and every write sequence, the ROM bank used for
\* reads of 0x4000-0x7FFF is below num_rom_banks, and a selector that is
\* >= num_rom_banks gives exactly bank num_rom_banks - 1.
C4_RomBankInRange ==
    (cart.phase = "loaded" /\ cart.m_mbc \in {"MBC_MBC1", "MBC_MBC3", "MBC_MBC5"}) =>
        /\ MappedRomBank(cart) < cart.m_num_rom_banks
        /\ ProgrammedSelector >= cart.m_num_rom_banks =>
              MappedRomBank(cart) = cart.m_num_rom_banks - 1

\* C5 as stated: on MBC1 with enough banks, in bank mode 0, writing 0x00, 0x20,
\* 0x40, 0x60 to 0x2000-0x3FFF selects bank 0x01, 0x21, 0x41, 0x61.
C5_SelectorPlusOne ==
    (/\ Loaded("MBC_MBC1")
     /\ cart.m_num_rom_banks >= 98
     /\ cart.m_mbc_data.bank_mode = 0
     /\ lastWritten[2] \in {0, 32, 64, 96}
     /\ Written(4, 0) = 0)
    => cart.m_mbc_data.active_rom_bank = lastWritten[2] + 1

\* C5 amended: on MBC1 with enough banks, in bank mode 0, only the low five
\* bits of the value written to 0x2000-0x3FFF are used, so after writing 0x00,
\* 0x20, 0x40 or 0x60 there the active bank is (u * 32) + 1, where u in 0..3 is
\* the value last written to 0x4000-0x5FFF (0 after Load): bank 0x01, 0x21,
\* 0x41, 0x61 for u = 0, 1, 2, 3.  {0x2000<-0x00} and
\* {0x2000<-0x20, 0x4000<-0x00, 0x6000<-0x00} both give bank 1.
C5_Mbc1ZeroRemap ==
    (/\ Loaded("MBC_MBC1")
     /\ cart.m_num_rom_banks >= 98
     /\ cart.m_mbc_data.bank_mode = 0
     /\ lastWritten[2] \in {0, 32, 64, 96}
     /\ Written(4, 0) \in 0..3)
    => cart.m_mbc_data.active_rom_bank = Written(4, 0) * 32 + 1

\* C5 witness: the sequence {0x2000<-0x20, 0x4000<-0x00, 0x6000<-0x00} has run
\* on a 128-bank MBC1 cartridge and bank 1 is mapped.
C5_Witness ==
    /\ Loaded("MBC_MBC1")
    /\ cart.m_num_rom_banks = 128
    /\ lastWritten[2] = 32 /\ lastWritten[4] = 0 /\ lastWritten[6] = 0
    /\ cart.m_mbc_data.active_rom_bank = 1

ReadOffsets == {0, 1, 16383}

\* C6: on an 8-bank MBC1 cartridge whose upper-bank register is as Load left it
\* (or whose bank mode is non-zero), write(0x2000, n) for n in 1..7 makes
\* every read at 0x4000+o return byte o of bank n, write(0x2000, 0) maps
\* bank 1, and in a non-zero bank mode the value written to 0x4000-0x5FFF does
\* not change the bank that is read.
C6_Mbc1Banking ==
    (/\ Loaded("MBC_MBC1")
     /\ cart.m_num_rom_banks = 8
     /\ lastWritten[2] \in 0..7
     /\ (cart.m_mbc_data.bank_mode # 0 \/ Written(4, 0) = 0))
    => \A o \in ReadOffsets :
          CPURead(cart, 16384 + o) = RomByte(ZeroToOne(lastWritten[2]), o)

\* C6 witness: write(0x6000, 1); write(0x4000, 1); write(0x2000, 0) has run and
\* reads come from bank 1.
C6_Witness ==
    /\ Loaded("MBC_MBC1")
    /\ cart.m_num_rom_banks = 8
    /\ lastWritten[6] = 1 /\ lastWritten[4] = 1 /\ lastWritten[2] = 0
    /\ CPURead(cart, 16384) = RomByte(1, 0)

\* C7: on MBC5 the 9-bit selector is ((last value written to 0x3000-0x3FFF) & 1)
\* << 8 | (last value written to 0x2000-0x2FFF) whatever the order of the two
\* writes, and a selector below num_rom_banks is the active bank, with no +1
\* remap of bank 0.
C7_Mbc5Selector ==
    Loaded("MBC_MBC5") =>
        LET sel == (Written(3, 0) % 2) * 256 + Written(2, 1)
        IN /\ cart.m_mbc_data.rom_bank_number = sel
           /\ sel < cart.m_num_rom_banks => cart.m_mbc_data.active_rom_bank = sel

\* C7 witness: {0x2000<-0x00, 0x3000<-0x00} has run and bank 0 is mapped.
C7_Witness ==
    /\ Loaded("MBC_MBC5")
    /\ lastWritten[2] = 0 /\ lastWritten[3] = 0
    /\ cart.m_mbc_data.active_rom_bank = 0

\* C8: the latched RTC bytes of an MBC3 cartridge change only on a write of 1
\* to 0x6000-0x7FFF that follows a state where the last value written to that
\* register was 0.
C8_LatchOnlyOnZeroToOne ==
    [][(Loaded("MBC_MBC3")
        /\ cart'.m_mbc_data.rtc_latch_data # cart.m_mbc_data.rtc_latch_data)
       => (Written(6, 0) = 0 /\ lastWritten'[6] = 1)]_vars


\* ------------------------------------------------------------------
\* Properties of the save states
\* ------------------------------------------------------------------
\* What a save state is to bring back: RAM contents, RTC data and the bank
\* registers of the controller
Captured(c) ==
    [ram |-> c.m_external_ram, rtc |-> c.m_rtc_data, mbc |-> c.m_mbc_data]

\* LoadState has just read a stream that leads with this ROM's CRC
LoadedOwnState == lastOp.op = "LoadState" /\ lastOp.ret = cart.m_crc

\* LoadState has just read a stream that leads with another CRC
LoadedOtherState == lastOp.op = "LoadState" /\ lastOp.ret # cart.m_crc

\* C9: SaveState followed by LoadState against the same ROM succeeds and
\* restores the RAM contents, the RTC data and the bank registers that
\* SaveState saw, whatever the cartridge did in between.
C9_RoundTrip ==
    LoadedOwnState => (lastOp.ok /\ Captured(cart) = Captured(savedCart))

\* C10: LoadState on a stream whose leading CRC differs from the loaded
\* ROM's CRC fails, and leaves the cartridge exactly as it was.
C10_CrcMismatchRejected ==
    [][LoadedOtherState' => (~lastOp'.ok /\ cart' = cart)]_vars

\* C10 happens: a stream with another CRC was refused while the cartridge's
\* RAM, RTC or registers differed from what the stream holds.
C10_Witness ==
    /\ LoadedOtherState
    /\ ~lastOp.ok
    /\ Captured(cart) # Captured(savedCart)
    /\ cart.m_external_ram # savedCart.m_external_ram

\* ------------------------------------------------------------------
\* Invariants of the Display registers
\* ------------------------------------------------------------------
\* C11: after Reset and after every Step, LY equals the current scanline and
\* lies in 0..153.
C11_LyIsScanline ==
    /\ m_registers.LY = m_currentScanLine
    /\ m_currentScanLine \in 0..153

\* C11 happens: the PPU stands on the last line, 153, and LY shows it.
C11_Witness == m_currentScanLine = 153 /\ m_registers.LY = 153

\* C12: in every state reached from Reset by Step calls, the low two bits of
\* STAT are the current PPU mode.
C12_StatLowBitsAreMode == m_registers.STAT % 4 = m_mode

\* C12 happens: Step has taken the PPU through modes 2, 3 and 0 of the visible
\* lines into VBlank, and STAT shows mode 1 on line 150.
C12_Witness == m_mode = 1 /\ m_registers.STAT % 4 = 1 /\ m_currentScanLine = 150

\* ------------------------------------------------------------------
\* Properties of the external RAM on the bus
\* ------------------------------------------------------------------
\* Whether the controller lets the CPU at the external RAM
RamEnabled(c) ==
    CASE c.m_mbc \in {"MBC_MBC1", "MBC_MBC5"} -> c.m_mbc_data.ram_enable
      [] c.m_mbc = "MBC_MBC3" -> c.m_mbc_data.ram_rtc_enable
      [] OTHER -> TRUE

HasMbc(c) == c.phase = "loaded" /\ c.m_mbc \in {"MBC_MBC1", "MBC_MBC3", "MBC_MBC5"}

\* The step was a CPU write to the RAM-enable window 0x0000-0x1FFF
WroteEnable == busOp'.op = "CPUWrite" /\ Window(busOp'.address) \in {0, 1}

\* The step called the host's SaveCartridgeRAM
SavedRam == \E i \in 1..Len(hostEvents') : hostEvents'[i].cb = "SaveCartridgeRAM"

\* C13: on MBC1 and MBC5 a write of v to 0x0000-0x1FFF enables external RAM
\* exactly when (v & 0x0F) = 0x0A.
C13_EnableOnLowNibble ==
    [][(cart.phase = "loaded" /\ cart.m_mbc \in {"MBC_MBC1", "MBC_MBC5"} /\ WroteEnable)
       => (cart'.m_mbc_data.ram_enable <=> (busOp'.value % 16 = 10))]_vars

C15_DisabledWriteDropped ==
    [][(/\ HasMbc(cart)
        /\ ~RamEnabled(cart)
        /\ busOp'.op = "CPUWrite" /\ InRamWindow(busOp'.address))
       => cart' = cart]_vars

\* C15 happens: RAM holds 0x5A from an earlier write, is disabled, and a write
\* of 0x00 to 0xA000 has left the 0x5A in place.
C15_Witness ==
    /\ HasMbc(cart)
    /\ ~RamEnabled(cart)
    /\ busOp = [op |-> "CPUWrite", address |-> 40960, value |-> 0]
    /\ RamGet(cart.m_external_ram, 0) = 90

\* C16: a CPU read through the cartridge from an unmapped address, or from
\* 0xA000-0xBFFF while RAM is disabled, returns 0xFF on every controller.
C16_OpenBusReadsFF ==
    (/\ cart.phase = "loaded"
     /\ busOp.op = "CPURead"
     /\ \/ Window(busOp.address) \in {8, 9}
        \/ (InRamWindow(busOp.address) /\ HasMbc(cart) /\ ~RamEnabled(cart)))
    => busOp.value = 255

\* ------------------------------------------------------------------
\* Properties of Load
\* ------------------------------------------------------------------
\* The bank count the header's ROM size code stands for
HeaderBanks == LookupRomBanks(romFile.rom_size)

\* The header is one the claim says Load must refuse
RefusedHeader ==
    LET ti == LookupTypeInfo(romFile.type)
    IN \/ ti = NULL
       \/ HeaderBanks = 0
       \/ romFile.ram_size > 5
       \/ (ti # NULL /\ romFile.ram_size > 0 /\ ~ti.ram)
       \/ (ti # NULL /\ ti.mbc \in {"MBC_MBC2", "MBC_MBC4", "MBC_MMM01"})

\* C17: Load fails when the type code or the ROM size code is not in its
\* table, when the RAM size code is above 5 or non-zero on a type without
\* RAM, and when the controller is MBC2, MBC4 or MMM01; a Load that succeeds
\* has controller None, MBC1, MBC3 or MBC5.
C17_LoadRefusesBadHeaders ==
    lastOp.op = "Load" =>
        /\ RefusedHeader => (~lastOp.ok /\ cart.phase = "failed")
        /\ lastOp.ok => cart.m_mbc \in {"MBC_NONE", "MBC_MBC1", "MBC_MBC3", "MBC_MBC5"}

\* C17 happens: a complete, well-formed MBC2 file was refused.
C17_Witness ==
    /\ lastOp.op = "Load" /\ ~lastOp.ok
    /\ romFile.type = 5 /\ romFile.rom_size = 1 /\ romFile.ram_size = 0
    /\ romFile.size = 4 * ROM_BANK_SIZE
    /\ cart.m_mbc = "MBC_MBC2"

\* C18: after a successful Load num_rom_banks * 16 KiB <= file size; a file
\* larger than the header's bank count gives num_rom_banks = file size div
\* 16 KiB on a type with a controller, and the header's count on type None.
C18_BankCountFitsFile ==
    (lastOp.op = "Load" /\ lastOp.ok) =>
        /\ cart.m_num_rom_banks * ROM_BANK_SIZE <= romFile.size
        /\ romFile.size > HeaderBanks * ROM_BANK_SIZE =>
              cart.m_num_rom_banks = IF cart.m_mbc = "MBC_NONE"
                                     THEN HeaderBanks
                                     ELSE romFile.size \div ROM_BANK_SIZE

\* C18 happens: an MBC1 file with one bank more than its header says was
\* loaded and the bank count was taken from the file.
C18_Witness ==
    /\ lastOp.op = "Load" /\ lastOp.ok
    /\ cart.m_mbc = "MBC_MBC1"
    /\ HeaderBanks = 4
    /\ romFile.size = 5 * ROM_BANK_SIZE
    /\ cart.m_num_rom_banks = 5

\* ------------------------------------------------------------------
\* Properties of the real-time clock
\* ------------------------------------------------------------------
\* The first 13 bytes of the persistence record in the order base_time (u64),
\* offset_seconds, offset_minutes, offset_hours, offset_days (u16)
RecordFields(rtc) ==
    WriteLE(rtc.base_time, 8)
      \o <<rtc.offset_seconds, rtc.offset_minutes, rtc.offset_hours>>
      \o WriteLE(rtc.offset_days, 2)

\* C19: the record SaveRTC hands to the host is 16 bytes holding base_time
\* (u64), offset_seconds, offset_minutes, offset_hours (u8 each), offset_days
\* (u16), halted and 2 reserved bytes in that order, the order LoadRTC reads.
C19_RecordFieldOrder ==
    \A i \in 1..Len(hostEvents) :
        hostEvents[i].cb = "SaveCartridgeRTC" =>
            /\ Len(hostEvents[i].data) = 16
            /\ SubSeq(hostEvents[i].data, 1, 13) = RecordFields(cart.m_rtc_data)
            /\ LoadRTC(cart, hostEvents[i].data, now).c.m_rtc_data.offset_seconds
                   = cart.m_rtc_data.offset_seconds

\* Elapsed clock time at wall-clock time t, from the claim's formula
ClockSeconds(c, t) ==
    (t - c.m_rtc_data.base_time) + c.m_rtc_data.offset_seconds
      + 60 * c.m_rtc_data.offset_minutes + 3600 * c.m_rtc_data.offset_hours
      + 86400 * c.m_rtc_data.offset_days

\* What the CPU reads at 0xA000 with RAM/RTC enabled and register sel selected
ReadRtcRegister(c, sel) ==
    CPURead([c EXCEPT !.m_mbc_data.ram_rtc_enable = TRUE,
                      !.m_mbc_data.ram_bank_number = sel], 40960)

\* The step is a write that takes the latch register at 0x6000-0x7FFF from
\* another value to 0x01
LatchStep ==
    /\ cart.phase = "loaded" /\ cart.m_mbc = "MBC_MBC3"
    /\ cart.m_mbc_data.rtc_latch # 1
    /\ lastOp'.op = "CPUWrite"
    /\ cart'.m_mbc_data.rtc_latch = 1

\* C20: a 0->1 latch at time now >= base_time makes the latched registers
\* read seconds = t mod 60, minutes = (t/60) mod 60, hours = (t/3600) mod 24
\* and day-low = (t/86400) mod 256, t being the elapsed time plus the offsets.
C20_LatchedClock ==
    [][ (LatchStep /\ now >= cart.m_rtc_data.base_time) =>
           LET t == ClockSeconds(cart, now)
           IN /\ ReadRtcRegister(cart', 8) = t % 60
              /\ ReadRtcRegister(cart', 9) = (t \div 60) % 60
              /\ ReadRtcRegister(cart', 10) = (t \div 3600) % 24
              /\ ReadRtcRegister(cart', 11) = (t \div 86400) % 256 ]_vars

\* C20 happens: 3661 s after Load, with all offsets zero, the latch register
\* has been written 0x01 and seconds, minutes and hours all read 1.
C20_Witness ==
    /\ cart.phase = "loaded" /\ cart.m_mbc = "MBC_MBC3"
    /\ lastOp.op = "CPUWrite" /\ lastWritten[6] = 1
    /\ cart.m_mbc_data.rtc_latch = 1
    /\ now = cart.m_rtc_data.base_time + 3661
    /\ cart.m_rtc_data.offset_seconds = 0 /\ cart.m_rtc_data.offset_minutes = 0
    /\ cart.m_rtc_data.offset_hours = 0 /\ cart.m_rtc_data.offset_days = 0
    /\ ReadRtcRegister(cart, 8) = 1
    /\ ReadRtcRegister(cart, 9) = 1
    /\ ReadRtcRegister(cart, 10) = 1

\* The RTC halt flag: bit 6 of the last value written to the day-high register
\* (cartridge.cpp:1005 stores its complement in m_rtc_data.active)
HaltFlag(c) == IF c.m_rtc_data.active THEN 0 ELSE 1

\* The day count a latch at wall-clock time t takes
DayCount(c, t) == ClockSeconds(c, t) \div 86400

\* C21: in the latched day-high byte, bit 0 is bit 8 of the day count, bit 6
\* is the halt flag and bit 7 is set exactly when the day count is >= 512.
C21_DayHighByte ==
    [][ LatchStep =>
           LET b == ReadRtcRegister(cart', 12)
               d == DayCount(cart, now)
           IN /\ Bit(b, 0) = Bit(d, 8)
              /\ Bit(b, 6) = HaltFlag(cart)
              /\ Bit(b, 7) = (IF d >= 512 THEN 1 ELSE 0) ]_vars

\* The five registers a 0->1 latch at wall-clock time t would produce
LatchAt(c, t) ==
    MBC_MBC3_WriteLatch([c EXCEPT !.m_mbc_data.rtc_latch = 0], 1, t).m_mbc_data.rtc_latch_data

\* The last bus operation wrote a value with bit 6 set to the day-high register
HaltJustWritten ==
    /\ cart.phase = "loaded" /\ cart.m_mbc = "MBC_MBC3"
    /\ busOp.op = "CPUWrite" /\ InRamWindow(busOp.address) /\ Bit(busOp.value, 6) = 1
    /\ cart.m_mbc_data.ram_rtc_enable /\ cart.m_mbc_data.ram_bank_number = 12
    /\ HaltFlag(cart) = 1

\* C22: once the halt flag is set, the time a latch produces stays what it
\* was at the moment of halt however much wall-clock time passes.
C22_HaltFreezesClock ==
    [][ (HaltJustWritten /\ now' # now /\ HaltFlag(cart') = 1) =>
           LatchAt(cart', now') = LatchAt(cart, now) ]_vars

\* The step is a write to 0xA000-0xBFFF with RAM/RTC enabled and an RTC
\* register selected
RtcWriteStep ==
    /\ cart.phase = "loaded" /\ cart.m_mbc = "MBC_MBC3"
    /\ cart.m_mbc_data.ram_rtc_enable
    /\ cart.m_mbc_data.ram_bank_number \in 8..12
    /\ lastOp'.op = "CPUWrite" /\ now' = now
    /\ busOp'.op = "CPUWrite" /\ InRamWindow(busOp'.address)
    /\ cart'.m_mbc_data = cart.m_mbc_data

\* The RTC state the spec persists: the offsets and the halt flag
RtcState(c) ==
    <<c.m_rtc_data.offset_seconds, c.m_rtc_data.offset_minutes,
      c.m_rtc_data.offset_hours, c.m_rtc_data.offset_days, HaltFlag(c)>>

SavedRtc(events) == \E i \in 1..Len(events) : events[i].cb = "SaveCartridgeRTC"

\* C27: a write to an RTC register stores the value in its field (day-high:
\* day bit 8, halt flag, carry), and the host's save-RTC callback is invoked
\* exactly when the write changes the stored RTC state, the halt flag included.
C27_RtcWritePersists ==
    [][ RtcWriteStep =>
           LET sel == cart.m_mbc_data.ram_bank_number
               v == busOp'.value
               rtc == cart'.m_rtc_data
           IN /\ sel = 8 => rtc.offset_seconds = v
              /\ sel = 9 => rtc.offset_minutes = v
              /\ sel = 10 => rtc.offset_hours = v
              /\ sel = 11 => rtc.offset_days % 256 = v
              /\ sel = 12 => /\ Bit(rtc.offset_days, 8) = Bit(v, 0)
                             /\ HaltFlag(cart') = Bit(v, 6)
                             /\ Bit(rtc.offset_days, 9) = Bit(v, 7)
              /\ SavedRtc(hostEvents') <=> (RtcState(cart') # RtcState(cart)) ]_vars

\* ------------------------------------------------------------------
\* Properties of MBC3 ROM banking
\* ------------------------------------------------------------------
\* C23: on an MBC3, after a write of v to 0x2000-0x3FFF the bank read at
\* 0x4000-0x7FFF is v & 0x7F, or 1 when that is 0, provided it is below
\* num_rom_banks; bit 7 of v has no effect.
C23_Mbc3BankSelect ==
    (/\ Loaded("MBC_MBC3")
     /\ lastWritten[2] # NoWrite
     /\ ZeroToOne(lastWritten[2] % 128) < cart.m_num_rom_banks)
    => /\ MappedRomBank(cart) = ZeroToOne(lastWritten[2] % 128)
       /\ \A o \in ReadOffsets :
             CPURead(cart, 16384 + o) = RomByte(ZeroToOne(lastWritten[2] % 128), o)

\* C23 happens: 0x82 was written to the bank register of a 128-bank MBC3 and
\* bank 2 is read at 0x4000; 0x80 was written and bank 1 is read.
C23_Witness ==
    /\ Loaded("MBC_MBC3")
    /\ cart.m_num_rom_banks = 128
    /\ lastWritten[2] = 130
    /\ lastOp.op = "CPURead"
    /\ lastOp.ret = RomByte(2, 0)

\* ------------------------------------------------------------------
\* Properties of the PPU interrupts
\* ------------------------------------------------------------------
\* The STAT enable bit of the mode entered is set
ModeSourceEnabled(mode, stat) ==
    \/ (mode = 0 /\ Bit(stat, 3) = 1)
    \/ (mode = 1 /\ Bit(stat, 4) = 1)
    \/ (mode = 2 /\ Bit(stat, 5) = 1)

\* C24: on a mode transition LCDSTAT is requested exactly when the mode
\* entered is 0, 1 or 2 and its STAT enable bit (3, 4, 5) is set; entering
\* mode 3 requests nothing; VBLANK is requested on every entry into mode 1.
\* (Entering mode 1 or 2 also changes LY, so with the coincidence source
\* enabled the count is bounded from below only.)
C24_ModeInterrupts ==
    [][ (m_mode' # m_mode) =>
           LET expected == IF ModeSourceEnabled(m_mode', m_registers.STAT) THEN 1 ELSE 0
           IN /\ CountOf(irqs', "VBLANK") = (IF m_mode' = 1 THEN 1 ELSE 0)
              /\ m_mode' = 3 => irqs' = <<>>
              /\ (m_mode' = 0 \/ Bit(m_registers.STAT, 6) = 0) =>
                     CountOf(irqs', "LCDSTAT") = expected
              /\ CountOf(irqs', "LCDSTAT") >= expected ]_vars

\* C24 happens: with the VBlank source enabled, the step into mode 1 has
\* requested LCDSTAT and VBLANK.
C24_Witness ==
    /\ m_mode = 1 /\ m_currentScanLine = 144
    /\ m_modeClocksRemaining = MODE1_CLOCKS
    /\ Bit(m_registers.STAT, 4) = 1 /\ Bit(m_registers.STAT, 6) = 0
    /\ irqs = <<"LCDSTAT", "VBLANK">>

\* C25: on every LY change a coincidence LCDSTAT is requested exactly when
\* the new LY equals LYC and STAT bit 6 is set: none when LY # LYC, none for
\* an LY outside 0..153.  (Stated with the mode sources 3-5 disabled, so that
\* every LCDSTAT request is a coincidence request.)
C25_CoincidenceInterrupt ==
    [][ (m_registers'.LY # m_registers.LY /\ (m_registers.STAT \div 8) % 8 = 0) =>
           CountOf(irqs', "LCDSTAT") =
               (IF m_registers'.LY = m_registers.LYC /\ Bit(m_registers.STAT, 6) = 1
                THEN 1 ELSE 0) ]_vars


\* The step of Display::Step that ends mode 3 and calls RenderScanline
RenderStep == m_mode = 3 /\ m_mode' = 0

\* C26 (as stated): the line is rendered from the VRAM and the OAM as they
\* were when mode 3 of the line was entered, so a VRAM write during mode 3 of
\* line L does not show on line L
C26_SnapshotsAtMode3Entry ==
    [][RenderStep =>
         \E uninit \in UninitEntries :
            m_frameBuffer' = RenderScanline(m_registers', atMode3Entry.vram,
                                            atMode3Entry.oam, uninit)]_vars

\* C26 (amended): the line is rendered from the OAM as it was when mode 3 of
\* the line was entered and from the VRAM as it is when mode 3 ends; no other
\* step changes the rendered line, so a VRAM write during mode 3 of line L
\* shows on line L and a later one first shows on line L+1
C26_OamAtEntryVramAtRender ==
    [][/\ RenderStep =>
            \E uninit \in UninitEntries :
               m_frameBuffer' = RenderScanline(m_registers', vram, atMode3Entry.oam, uninit)
       /\ ~RenderStep => m_frameBuffer' = m_frameBuffer]_vars

\* Line L was just rendered after a write during its mode 3 put tile 1 into
\* the map, and the first pixel has the colour of tile 1
C26_Witness ==
    /\ m_mode = 0
    /\ m_modeClocksRemaining = 204
    /\ VramGet(atMode3Entry.vram, 6144) = 0
    /\ VramGet(m_vramCopy, 6144) = 1
    /\ FrameGet(m_frameBuffer, 0) = 3

\* RenderScanline has just written line LY to the framebuffer
LineRendered ==
    m_mode = 0 /\ m_modeClocksRemaining = MODE0_CLOCKS /\ Bit(m_registers.LCDC, 7) = 1

\* The tile id the background map holds for a pixel of line LY
BgMapTile(pixel_x) ==
    LET src_x == (m_registers.SCX + pixel_x) % 256
        src_y == (m_registers.SCY + m_registers.LY) % 256
        BGMAPBASE == IF Bit(m_registers.LCDC, 3) = 1 THEN 7168 ELSE 6144
    IN VramGet(m_vramCopy, BGMAPBASE + (src_y \div 8) * 32 + (src_x \div 8))

\* The palette index of a background pixel of line LY when tile id t is
\* decoded from t*16 (LCDC bit 4 set) or from 0x1000 + s*16 (bit 4 clear)
BgIndexAsSpecified(pixel_x) ==
    LET t == BgMapTile(pixel_x)
        offset == IF Bit(m_registers.LCDC, 4) = 1 THEN t * 16 ELSE 4096 + SignedTile(t) * 16
        x == (m_registers.SCX + pixel_x) % 8
        y == (m_registers.SCY + m_registers.LY) % 8
    IN Bit(VramGet(m_vramCopy, offset + 2 * y), 7 - x)
         + 2 * Bit(VramGet(m_vramCopy, offset + 2 * y + 1), 7 - x)

\* C28: with the background on and the sprites off, every pixel of a rendered
\* line has the BGP colour of the palette index decoded from offset t*16 when
\* LCDC bit 4 is set and from offset 0x1000 + s*16 (s: t as a signed byte)
\* when it is clear
C28_TileDataAddressing ==
    (LineRendered /\ Bit(m_registers.LCDC, 0) = 1 /\ Bit(m_registers.LCDC, 1) = 0) =>
        \A pixel_x \in 0..(SCREEN_WIDTH - 1) :
            FrameGet(m_frameBuffer, pixel_x) =
                (m_registers.BGP \div Pow2(2 * BgIndexAsSpecified(pixel_x))) % 4

\* The sprites of line LY, sorted by x
LineSprites ==
    SortByX(CullSprites(m_oamCopy, m_registers.LY, 8 + Bit(m_registers.LCDC, 2) * 8))

Covers(sprite, pixel_x) == pixel_x >= sprite.x - 8 /\ pixel_x <= sprite.x - 1

\* The colour of a pixel of line LY without sprites
BackgroundColor(pixel_x) == RenderPixel(m_registers, m_vramCopy, <<>>, pixel_x).color

\* C29: on a rendered line with 11 or more sprites, a pixel that none of the
\* first 10 sprites (by x) covers shows no sprite
C29_TenSpritesPerLine ==
    (LineRendered /\ Bit(m_registers.LCDC, 1) = 1 /\ Len(LineSprites) >= 11) =>
        \A pixel_x \in 0..(SCREEN_WIDTH - 1) :
            (\A i \in 1..10 : ~Covers(LineSprites[i], pixel_x)) =>
                FrameGet(m_frameBuffer, pixel_x) = BackgroundColor(pixel_x)

\* A pixel of line LY is drawn from a sprite: the sprite covers it and the
\* pixel has the colour the sprite has there
DrawnFrom(sprite, pixel_x) ==
    /\ Covers(sprite, pixel_x)
    /\ FrameGet(m_frameBuffer, pixel_x) = RenderPixel(m_registers, m_vramCopy, <<sprite>>, pixel_x).color

\* Where two sprites of different x on line LY cover a pixel, the pixel is
\* drawn from the one of smaller x and has its colour there
SmallerXWins ==
    (LineRendered /\ Bit(m_registers.LCDC, 1) = 1) =>
        \A pixel_x \in 0..(SCREEN_WIDTH - 1) :
            \A i, j \in 1..Len(LineSprites) :
                (/\ LineSprites[i].x < LineSprites[j].x
                 /\ Covers(LineSprites[i], pixel_x) /\ Covers(LineSprites[j], pixel_x)
                 /\ \A k \in 1..Len(LineSprites) :
                        Covers(LineSprites[k], pixel_x) => LineSprites[i].x <= LineSprites[k].x
                 /\ BackgroundColor(pixel_x) = 0 \/ LineSprites[i].priority = 0) =>
                    DrawnFrom(LineSprites[i], pixel_x)

\* Line 10 of the S5 setup is rendered
S5Rendered ==
    /\ LineRendered /\ Bit(m_registers.LCDC, 1) = 1
    /\ m_registers.LY = 10
    /\ {LineSprites[i] : i \in 1..Len(LineSprites)} = {SpriteA, SpriteB}

SpriteIndexAt(sprite, pixel_x) ==
    ReadTile(m_vramCopy, FALSE, sprite.tile,
             pixel_x - (sprite.x - 8), m_registers.LY - (sprite.y - 16))

\* C31: where the first sprite covering a pixel (unflipped, 8x8) has palette
\* index 0 there, the pixel keeps the background colour (white with the
\* background off)
C31_TransparentIndexZero ==
    (LineRendered /\ Bit(m_registers.LCDC, 1) = 1 /\ Bit(m_registers.LCDC, 2) = 0) =>
        \A pixel_x \in 0..(SCREEN_WIDTH - 1) :
            \A i \in 1..Len(LineSprites) :
                (/\ Covers(LineSprites[i], pixel_x)
                 /\ \A j \in 1..(i - 1) : ~Covers(LineSprites[j], pixel_x)
                 /\ LineSprites[i].hflip = 0 /\ LineSprites[i].vflip = 0
                 /\ SpriteIndexAt(LineSprites[i], pixel_x) = 0) =>
                    FrameGet(m_frameBuffer, pixel_x) = BackgroundColor(pixel_x)

\* What RenderScanline gives to ReadTile at a pixel of line LY that lies in
\* the window of a sprite of the line
SpriteFetch(pixel_x) ==
    RenderPixel(m_registers, m_vramCopy, LineSprites, pixel_x)

\* C32: for every sprite pixel fetch the row given to ReadTile is in 0..7; a
\* sprite row r is taken from row r, or from row height - 1 - r when
\* V-flipped, and in 8x16 mode rows 0..7 come from tile NN & 0xFE and rows
\* 8..15 from rows 0..7 of tile NN | 1
C32_SpriteRowInTile ==
    (LineRendered /\ Bit(m_registers.LCDC, 1) = 1) =>
        \A pixel_x \in 0..(SCREEN_WIDTH - 1) :
            SpriteFetch(pixel_x).sprite # 0 =>
                LET sprite == LineSprites[SpriteFetch(pixel_x).sprite]
                    height == 8 + Bit(m_registers.LCDC, 2) * 8
                    r == m_registers.LY - (sprite.y - 16)
                    row == IF sprite.vflip = 1 THEN height - 1 - r ELSE r
                    NN == sprite.tile
                IN /\ SpriteFetch(pixel_x).tile_y \in 0..7
                   /\ SpriteFetch(pixel_x).tile_y = row % 8
                   /\ SpriteFetch(pixel_x).tile_index =
                         (IF height = 8 THEN NN
                          ELSE IF row < 8 THEN NN - (NN % 2) ELSE NN - (NN % 2) + 1)

\* The active_sprites slots the pixel loop reads for a pixel: up to the first
\* one whose window holds the pixel, or all of them
ConsultedSlots(active, pixel_x) ==
    LET first == FirstSpriteAt(active, pixel_x)
    IN 1..(IF first = 0 THEN Len(active) ELSE first)

\* C33: every active_sprites slot read while compositing a pixel of the
\* rendered line holds an OAM entry that passed the cull for line LY
C33_OnlyCulledSpritesConsulted ==
    (LineRendered /\ Bit(m_registers.LCDC, 1) = 1) =>
        \A uninit \in UninitEntries :
            LET active == ActiveSprites(m_oamCopy, m_registers.LY,
                                        8 + Bit(m_registers.LCDC, 2) * 8, uninit)
            IN \A pixel_x \in 0..(SCREEN_WIDTH - 1) :
                  \A i \in ConsultedSlots(active, pixel_x) : i <= Len(LineSprites)

\* The RAM bank selected on the cartridge and whether its RAM is enabled
SelectedRamBank(c) ==
    IF c.m_mbc = "MBC_MBC1" THEN c.m_mbc_data.active_ram_bank
    ELSE c.m_mbc_data.ram_bank_number

RamIsEnabled(c) ==
    IF c.m_mbc = "MBC_MBC3" THEN c.m_mbc_data.ram_rtc_enable ELSE c.m_mbc_data.ram_enable

\* The byte of external RAM that bank b and bus address 0xA000 + o name
RamIndex(c, address) == SelectedRamBank(c) * RAM_BANK_SIZE + (address - 40960)

\* C34: with RAM enabled, bank b selected and b*8192 + o inside the RAM, a
\* write at 0xA000 + o stores into external_ram[b*8192 + o] and nowhere else,
\* and a read there returns external_ram[b*8192 + o]
C34_BankedRamAddressing ==
    [][(/\ cart.phase = "loaded"
        /\ cart.m_mbc \in {"MBC_MBC1", "MBC_MBC3", "MBC_MBC5"}
        /\ busOp'.op \in {"CPUWrite", "CPURead"}
        /\ InRamWindow(busOp'.address)
        /\ RamIsEnabled(cart)
        /\ RamIndex(cart, busOp'.address) < cart.m_external_ram_size) =>
           IF busOp'.op = "CPUWrite"
           THEN cart'.m_external_ram =
                    RamSet(cart.m_external_ram, RamIndex(cart, busOp'.address), busOp'.value)
           ELSE busOp'.value = RamGet(cart.m_external_ram, RamIndex(cart, busOp'.address))]_vars

\* C35: every CPU write that changes a byte of external RAM leaves
\* external_ram_modified set, for every MBC kind including None
C35_RamChangeFlagged ==
    [][(/\ cart.phase = "loaded"
        /\ busOp'.op = "CPUWrite"
        /\ cart'.m_external_ram # cart.m_external_ram) =>
           cart'.m_external_ram_modified]_vars

\* C36: a LoadState that returns failure leaves external RAM, the RTC state
\* and the MBC registers as they were before the call
C36_FailedLoadStateChangesNothing ==
    [][(/\ cart.phase = "loaded"
        /\ lastOp'.op = "LoadState"
        /\ ~lastOp'.ok) =>
           /\ cart'.m_external_ram = cart.m_external_ram
           /\ cart'.m_rtc_data = cart.m_rtc_data
           /\ cart'.m_mbc_data = cart.m_mbc_data]_vars

\* The RTC fields that persist
RtcOffsets(rtc) ==
    <<rtc.base_time, rtc.offset_seconds, rtc.offset_minutes, rtc.offset_hours, rtc.offset_days>>

\* C37: the 16 bytes SaveRTC produces for an RTC state, read by LoadRTC,
\* restore the same base_time, offset_seconds, offset_minutes, offset_hours
\* and offset_days
C37_RtcRoundTrip ==
    \A i \in 1..Len(hostEvents) :
        hostEvents[i].cb = "SaveCartridgeRTC" =>
            RtcOffsets(LoadRTC(cart, hostEvents[i].data, now).c.m_rtc_data)
                = RtcOffsets(cart.m_rtc_data)

\* C38: on an MBC1 or MBC3 cartridge, after Load or Reset and any CPU writes,
\* the bank mapped at 0x4000-0x7FFF is never bank 0, and on an MBC1 it is
\* never bank 0x20, 0x40 or 0x60 either, whatever bank count the load produced
C38_NoForbiddenBankMapped ==
    (cart.phase = "loaded" /\ cart.m_mbc \in {"MBC_MBC1", "MBC_MBC3"}) =>
        /\ MappedRomBank(cart) # 0
        /\ cart.m_mbc = "MBC_MBC1" => MappedRomBank(cart) \notin {32, 64, 96}

\* The cartridge a fresh Load of the same ROM file gives, holding the external
\* RAM contents and the RTC state of c
FreshlyLoaded(c) ==
    LET f == Load(NewCartridge, romFile, NoFile, NoFile, now).c
    IN [f EXCEPT !.m_external_ram = c.m_external_ram, !.m_rtc_data = c.m_rtc_data]

\* Bus operations tried after a reset, and what the cartridge answers to a
\* sequence of them: the save callbacks of each write, the byte of each read
ProbeOps ==
    {[op |-> "CPUWrite", address |-> 0, value |-> 0],
     [op |-> "CPUWrite", address |-> 0, value |-> 10],
     [op |-> "CPUWrite", address |-> 16384, value |-> 8],
     [op |-> "CPUWrite", address |-> 24576, value |-> 1],
     [op |-> "CPUWrite", address |-> 40960, value |-> 90],
     [op |-> "CPURead", address |-> 40960, value |-> 0]}
\* every sequence of one to four of them
ProbeSeqs == UNION {[1..n -> ProbeOps] : n \in 1..4}

RECURSIVE Responses(_, _, _)
Responses(c, ops, i) ==
    IF i > Len(ops) THEN <<>>
    ELSE IF ops[i].op = "CPUWrite"
         THEN LET r == CPUWrite(c, ops[i].address, ops[i].value, now)
              IN <<r.ev>> \o Responses(r.c, ops, i + 1)
         ELSE <<CPURead(c, ops[i].address)>> \o Responses(c, ops, i + 1)

\* C39: after Cartridge::Reset, whatever was written before, the cartridge
\* answers every sequence of bus reads and writes (returned bytes, latched
\* clock values, save-RAM callbacks) as a freshly loaded cartridge with the
\* same external RAM contents and RTC state does
C39_ResetLikeFreshLoad ==
    lastOp.op = "Reset" =>
        \A ops \in ProbeSeqs :
            Responses(cart, ops, 1) = Responses(FreshlyLoaded(cart), ops, 1)

\* C40: InitializeState never uses the cartridge object unless LoadCart
\* succeeded: whenever the cartridge's name is about to be read for the window
\* title, or the cartridge is about to be passed to System::Init, state->cart
\* is non-null and holds a loaded cartridge, for every argument list
C40_CartridgeNonNullWhenUsed ==
    hostPc \in {"window_title", "system_init"} =>
        state.cart # NullPtr /\ cart.phase = "loaded"

====
